---------------------------- MODULE Spec2Model ----------------------------
(***************************************************************************)
(* Model of the MachinePro valuation pipeline:                             *)
(*   run_chain (src/orchestrator.py)                                       *)
(*     -> rag_retriever.acall / search_with_rag                            *)
(*        (src/app/agents/rag_retriever.py)                                *)
(*     -> valuator.acall (src/app/agents/valuator.py)                      *)
(*     -> formatter.acall (src/app/agents/formatter.py)                    *)
(*                                                                         *)
(* Text is a sequence of one-character strings, so that the regular        *)
(* expressions of the source are modelled by what they match.  Prices are  *)
(* exact rationals [n, d] in lowest terms (the source uses binary floats;  *)
(* their rounding error is not modelled).                                  *)
(***************************************************************************)
EXTENDS Integers, Sequences, FiniteSets, TLC

VARIABLES
    useDummy,              \* valuator.USE_DUMMY / formatter.USE_DUMMY
    payload,               \* run_chain's argument
    now,                   \* datetime.now() of the request
    store,                 \* passages held by the external vector store
    pc,                    \* position of run_chain
    results,               \* search_with_rag: passages returned by the search
    serializable_results,  \* search_with_rag: records built from the passages
    skipped,               \* search_with_rag: indexes i whose result was skipped
    recent_results,        \* search_with_rag: the list that is finally returned
    filtered_results,      \* search_with_rag: records inside the IQR bounds
    removed_count,         \* search_with_rag: number of records outside them
    caught,                \* search_with_rag: its except clause has run
    comps,                 \* run_chain: comps_json
    valuation_raw,         \* run_chain: valuation_raw
    response,              \* run_chain: the returned JSON document
    text,                  \* text functions: the input string
    once,                  \* text functions: the function applied once
    twice,                 \* text functions: the function applied twice
    tpc,                   \* text functions: position
    calls,                 \* concurrent requests: the locals of each run_chain
    xtext,                 \* extraction: the text handed to the extractors
    xprices,               \* extraction: what extract_prices returned
    xdate,                 \* extraction: what extract_date returned
    xhint,                 \* extraction: the make handed to the brand extractor
    xbrand,                \* extraction: the brand returned
    xauction,              \* extraction: what extract_auction_company returned
    xpc,                   \* extraction: position
    qpayload,              \* query: the request payload
    structured_query,      \* query: run_chain's structured_query
    qmake,                 \* query: the make acall reads
    qmodel,                \* query: the model acall reads
    qyear,                 \* query: the year acall reads
    qpc                    \* query: position

vars == <<useDummy, payload, now, store, pc, results, serializable_results,
          skipped, recent_results, filtered_results, removed_count, caught,
          comps,
          valuation_raw, response, text, once, twice, tpc, calls, xtext,
          xprices, xdate, xhint, xbrand, xauction, xpc, qpayload,
          structured_query, qmake, qmodel, qyear, qpc>>

pipelineVars == <<useDummy, payload, now, store, pc, results,
                  serializable_results, skipped, recent_results,
                  filtered_results, removed_count, caught, comps,
                  valuation_raw, response>>

textVars == <<text, once, twice, tpc>>

pairVars == <<calls>>

extractVars == <<xtext, xprices, xdate, xhint, xbrand, xauction, xpc>>

queryVars == <<qpayload, structured_query, qmake, qmodel, qyear, qpc>>

---------------------------------------------------------------------------
(* Bounds of the model *)

\* Longest input string of the text-function specification.
MaxLen == 6

\* Most passages one search returns (the source asks for k = 10).  From 6
\* prices on, the quartiles fall between two of them.
MaxResults == 6

---------------------------------------------------------------------------
(* Characters and strings *)

Digits == {"0", "1", "2", "3", "4", "5", "6", "7", "8", "9"}

\* The characters \s matches (ASCII).
Whitespace == {" ", "\t", "\n", "\r"}

DigitValue(c) ==
    CASE c = "0" -> 0 [] c = "1" -> 1 [] c = "2" -> 2 [] c = "3" -> 3
      [] c = "4" -> 4 [] c = "5" -> 5 [] c = "6" -> 6 [] c = "7" -> 7
      [] c = "8" -> 8 [] c = "9" -> 9

Min(a, b) == IF a <= b THEN a ELSE b

\* s[i..], the suffix of s that starts at index i (1-based).
From(s, i) == SubSeq(s, i, Len(s))

\* Length of the longest prefix of s[i..] made of characters of class.
RECURSIVE RunLen(_, _, _)
RunLen(s, i, class) ==
    IF i <= Len(s) /\ s[i] \in class THEN 1 + RunLen(s, i + 1, class) ELSE 0

\* Does the literal lit occur in s at index i?
LiteralAt(s, i, lit) ==
    /\ i + Len(lit) - 1 <= Len(s)
    /\ \A k \in 1..Len(lit) : s[i + k - 1] = lit[k]

\* str.replace(c, ''): s without the character c.
RemoveChar(s, c) == SelectSeq(s, LAMBDA x : x # c)

---------------------------------------------------------------------------
(* clean_and_normalize_text, rag_retriever.py:36-42 *)

\* re.sub(r'\s+', ' ', text): every run of whitespace becomes one space.
RECURSIVE CollapseWhitespace(_)
CollapseWhitespace(s) ==
    IF s = <<>> THEN <<>>
    ELSE IF s[1] \in Whitespace
         THEN <<" ">> \o CollapseWhitespace(From(s, 1 + RunLen(s, 1, Whitespace)))
         ELSE <<s[1]>> \o CollapseWhitespace(Tail(s))

\* str.strip(): leading and trailing whitespace removed.
Strip(s) ==
    LET lead == RunLen(s, 1, Whitespace)
        rest == From(s, lead + 1)
        RECURSIVE TrailLen(_)
        TrailLen(k) == IF k >= 1 /\ rest[k] \in Whitespace
                       THEN 1 + TrailLen(k - 1) ELSE 0
    IN  SubSeq(rest, 1, Len(rest) - TrailLen(Len(rest)))

\* One match of r'\$\s*(\d+),(\d+)' at index i: the lengths of the pieces, or
\* ok = FALSE.  \s*, \d+ and ',' match disjoint characters, so the greedy
\* match is the only candidate.
DollarGroupMatch(s, i) ==
    LET ws == RunLen(s, i + 1, Whitespace)
        a  == i + 1 + ws
        d1 == RunLen(s, a, Digits)
        b  == a + d1 + 1
        d2 == RunLen(s, b, Digits)
    IN  [ok  |-> /\ i <= Len(s) /\ s[i] = "$"
                 /\ d1 >= 1
                 /\ a + d1 <= Len(s) /\ s[a + d1] = ","
                 /\ d2 >= 1,
         g1  |-> SubSeq(s, a, a + d1 - 1),
         g2  |-> SubSeq(s, b, b + d2 - 1),
         end |-> b + d2]

\* re.sub(r'\$\s*(\d+),(\d+)', r'$\1\2', text): left to right, every
\* non-overlapping match is rewritten once; the scan resumes after the match.
RECURSIVE NormalizeDollars(_, _)
NormalizeDollars(s, i) ==
    IF i > Len(s) THEN <<>>
    ELSE LET m == DollarGroupMatch(s, i)
         IN  IF m.ok
             THEN <<"$">> \o m.g1 \o m.g2 \o NormalizeDollars(s, m.end)
             ELSE <<s[i]>> \o NormalizeDollars(s, i + 1)

clean_and_normalize_text(s) ==
    NormalizeDollars(Strip(CollapseWhitespace(s)), 1)

---------------------------------------------------------------------------
(* Exact rationals [n, d], d > 0, in lowest terms *)

RECURSIVE GCD(_, _)
GCD(a, b) == IF b = 0 THEN a ELSE GCD(b, a % b)

Abs(x) == IF x < 0 THEN -x ELSE x

Rat(n, d) ==
    LET g == GCD(Abs(n), d)
    IN  IF n = 0 THEN [n |-> 0, d |-> 1] ELSE [n |-> n \div g, d |-> d \div g]

RatInt(k) == [n |-> k, d |-> 1]

RatAdd(a, b) == Rat(a.n * b.d + b.n * a.d, a.d * b.d)

RatSub(a, b) == Rat(a.n * b.d - b.n * a.d, a.d * b.d)

RatMul(a, b) == Rat(a.n * b.n, a.d * b.d)

\* a * (p / q), q > 0
RatScale(a, p, q) == Rat(a.n * p, a.d * q)

RatLt(a, b) == a.n * b.d < b.n * a.d

RatLeq(a, b) == a.n * b.d <= b.n * a.d

RECURSIVE RatSum(_)
RatSum(s) == IF s = <<>> THEN RatInt(0) ELSE RatAdd(Head(s), RatSum(Tail(s)))

\* sum(xs) / len(xs), for a non-empty list
RatMean(s) == RatScale(RatSum(s), 1, Len(s))

---------------------------------------------------------------------------
(* extract_prices, rag_retriever.py:72-97 *)

MinPrice == 1000

MaxPrice == 1000000

\* The characters of the class [\d,].
PriceChars == Digits \cup {","}

Lit_dollars == <<"d", "o", "l", "l", "a", "r", "s">>

Lit_USD == <<"U", "S", "D">>

\* The optional group (?:\.\d+)? at index i: the number of characters it takes.
FractionLen(s, i) ==
    IF i <= Len(s) /\ s[i] = "." /\ RunLen(s, i + 1, Digits) >= 1
    THEN 1 + RunLen(s, i + 1, Digits) ELSE 0

\* One match of r'\$\s*([\d,]+)(?:\.\d+)?' at index i.
DollarPriceMatch(s, i) ==
    LET ws == RunLen(s, i + 1, Whitespace)
        a  == i + 1 + ws
        n  == RunLen(s, a, PriceChars)
    IN  [ok  |-> i <= Len(s) /\ s[i] = "$" /\ n >= 1,
         g1  |-> SubSeq(s, a, a + n - 1),
         end |-> a + n + FractionLen(s, a + n)]

\* One match of r'([\d,]+)(?:\.\d+)?\s*<word>' at index i.  A shorter run of
\* [\d,] or a skipped fraction leaves a character the rest cannot match, so
\* the greedy choice is the only candidate.
SuffixPriceMatch(s, i, word) ==
    LET n  == RunLen(s, i, PriceChars)
        f  == i + n + FractionLen(s, i + n)
        w  == f + RunLen(s, f, Whitespace)
    IN  [ok  |-> n >= 1 /\ LiteralAt(s, w, word),
         g1  |-> SubSeq(s, i, i + n - 1),
         end |-> w + Len(word)]

\* The match of the k-th entry of price_patterns at index i.
PriceMatch(s, i, k) ==
    CASE k = 1 -> DollarPriceMatch(s, i)
      [] k = 2 -> SuffixPriceMatch(s, i, Lit_dollars)
      [] k = 3 -> SuffixPriceMatch(s, i, Lit_USD)

\* re.findall(pattern, text): group 1 of the non-overlapping matches, left to
\* right.
RECURSIVE FindAll(_, _, _)
FindAll(s, i, k) ==
    IF i > Len(s) THEN <<>>
    ELSE LET m == PriceMatch(s, i, k)
         IN  IF m.ok THEN <<m.g1>> \o FindAll(s, m.end, k)
             ELSE FindAll(s, i + 1, k)

RECURSIVE StripLeadingZeros(_)
StripLeadingZeros(ds) ==
    IF Len(ds) > 1 /\ ds[1] = "0" THEN StripLeadingZeros(Tail(ds)) ELSE ds

RECURSIVE DecimalValue(_)
DecimalValue(ds) ==
    IF ds = <<>> THEN 0
    ELSE 10 * DecimalValue(SubSeq(ds, 1, Len(ds) - 1)) + DigitValue(ds[Len(ds)])

\* float(match.replace(',', '')) raises on the empty string (a match made of
\* commas only); the except clause skips the match.
ParsesAsFloat(match) == RemoveChar(match, ",") # <<>>

\* Mutant: the upper end of the range has lost a zero.
InPriceRange_Narrow(match) ==
    LET ds == StripLeadingZeros(RemoveChar(match, ","))
    IN  /\ Len(ds) <= 7
        /\ MinPrice <= DecimalValue(ds)
        /\ DecimalValue(ds) <= MaxPrice \div 10

\* if 1000 <= price <= 1000000, for a match that parses.  A number of more
\* than seven significant digits is above the range whatever its value.
InPriceRange(match) ==
    LET ds == StripLeadingZeros(RemoveChar(match, ","))
    IN  /\ Len(ds) <= 7
        /\ MinPrice <= DecimalValue(ds)
        /\ DecimalValue(ds) <= MaxPrice

PriceOf(match) == DecimalValue(StripLeadingZeros(RemoveChar(match, ",")))

\* The prices the inner loop appends for one pattern.
PricesOfPattern(s, k) ==
    LET kept == SelectSeq(FindAll(s, 1, k),
                          LAMBDA m : ParsesAsFloat(m) /\ InPriceRange(m))
    IN  [j \in 1..Len(kept) |-> PriceOf(kept[j])]

\* Mutant: the patterns are tried in the reverse order.
extract_prices_UsdFirst(s) ==
    PricesOfPattern(s, 3) \o PricesOfPattern(s, 2) \o PricesOfPattern(s, 1)

\* all_prices: the matches of the first pattern, then of the second, then of
\* the third.
extract_prices(s) ==
    PricesOfPattern(s, 1) \o PricesOfPattern(s, 2) \o PricesOfPattern(s, 3)

---------------------------------------------------------------------------
(* extract_date, rag_retriever.py:44-70 *)

\* Are the n characters of s from index i all digits?
DigitsAt(s, i, n) ==
    /\ i >= 1 /\ i + n - 1 <= Len(s)
    /\ \A k \in i..(i + n - 1) : s[k] \in Digits

CharAt(s, i, c) == i >= 1 /\ i <= Len(s) /\ s[i] = c

Number(s, i, n) == DecimalValue(SubSeq(s, i, i + n - 1))

\* A sale date as the three numbers of the string "YYYY-MM-DD".
Date(y, m, d) == [y |-> y, m |-> m, d |-> d]

NoDate == [y |-> 0, m |-> 0, d |-> 0]

\* r'(\d{1,2})<sep>(\d{1,2})<sep>(\d{4})' at index i, the groups taken as
\* (first, second, year).  The separator fixes the length of each group.
ShortDateAt(s, i, sep) ==
    LET a == IF DigitsAt(s, i, 2) /\ CharAt(s, i + 2, sep) THEN 2 ELSE 1
        j == i + a + 1
        b == IF DigitsAt(s, j, 2) /\ CharAt(s, j + 2, sep) THEN 2 ELSE 1
        k == j + b + 1
    IN  [ok |-> /\ DigitsAt(s, i, a) /\ CharAt(s, i + a, sep)
                /\ DigitsAt(s, j, b) /\ CharAt(s, j + b, sep)
                /\ DigitsAt(s, k, 4),
         g1 |-> IF DigitsAt(s, i, a) THEN Number(s, i, a) ELSE 0,
         g2 |-> IF DigitsAt(s, j, b) THEN Number(s, j, b) ELSE 0,
         g3 |-> IF DigitsAt(s, k, 4) THEN Number(s, k, 4) ELSE 0]

\* r'(\d{4})/(\d{1,2})/(\d{1,2})' at index i; the last group is greedy.
YearFirstDateAt(s, i) ==
    LET j == i + 5
        b == IF DigitsAt(s, j, 2) /\ CharAt(s, j + 2, "/") THEN 2 ELSE 1
        k == j + b + 1
        c == IF DigitsAt(s, k, 2) THEN 2 ELSE 1
    IN  [ok |-> /\ DigitsAt(s, i, 4) /\ CharAt(s, i + 4, "/")
                /\ DigitsAt(s, j, b) /\ CharAt(s, j + b, "/")
                /\ DigitsAt(s, k, c),
         g1 |-> IF DigitsAt(s, i, 4) THEN Number(s, i, 4) ELSE 0,
         g2 |-> IF DigitsAt(s, j, b) THEN Number(s, j, b) ELSE 0,
         g3 |-> IF DigitsAt(s, k, c) THEN Number(s, k, c) ELSE 0]

MonthNames ==
    << <<"J", "a", "n", "u", "a", "r", "y">>,
       <<"F", "e", "b", "r", "u", "a", "r", "y">>,
       <<"M", "a", "r", "c", "h">>,
       <<"A", "p", "r", "i", "l">>,
       <<"M", "a", "y">>,
       <<"J", "u", "n", "e">>,
       <<"J", "u", "l", "y">>,
       <<"A", "u", "g", "u", "s", "t">>,
       <<"S", "e", "p", "t", "e", "m", "b", "e", "r">>,
       <<"O", "c", "t", "o", "b", "e", "r">>,
       <<"N", "o", "v", "e", "m", "b", "e", "r">>,
       <<"D", "e", "c", "e", "m", "b", "e", "r">> >>

\* r'(January|...|December)\s+(\d{1,2}),\s+(\d{4})' at index i, with month
\* name number mi.  g1 is the month's index + 1.
LongDateWith(s, i, mi) ==
    LET name == MonthNames[mi]
        p  == i + Len(name)
        w1 == RunLen(s, p, Whitespace)
        j  == p + w1
        b  == IF DigitsAt(s, j, 2) /\ CharAt(s, j + 2, ",") THEN 2 ELSE 1
        q  == j + b + 1
        w2 == RunLen(s, q, Whitespace)
        k  == q + w2
    IN  [ok |-> /\ LiteralAt(s, i, name)
                /\ w1 >= 1
                /\ DigitsAt(s, j, b) /\ CharAt(s, j + b, ",")
                /\ w2 >= 1
                /\ DigitsAt(s, k, 4),
         g1 |-> mi,
         g2 |-> IF DigitsAt(s, j, b) THEN Number(s, j, b) ELSE 0,
         g3 |-> IF DigitsAt(s, k, 4) THEN Number(s, k, 4) ELSE 0]

LongDateAt(s, i) ==
    IF \E mi \in 1..12 : LongDateWith(s, i, mi).ok
    THEN LongDateWith(s, i, CHOOSE mi \in 1..12 : LongDateWith(s, i, mi).ok)
    ELSE [ok |-> FALSE, g1 |-> 0, g2 |-> 0, g3 |-> 0]

\* The match of the k-th entry of patterns at index i.
DateMatchAt(s, i, k) ==
    CASE k = 1 -> ShortDateAt(s, i, "/")
      [] k = 2 -> ShortDateAt(s, i, "-")
      [] k = 3 -> YearFirstDateAt(s, i)
      [] k = 4 -> ShortDateAt(s, i, "/")
      [] k = 5 -> LongDateAt(s, i)

\* Mutant: the first formatter reads its groups day first.
DateFormat_DayFirst(m, k) ==
    CASE k = 1 -> Date(m.g3, m.g2, m.g1)
      [] k = 2 -> Date(m.g3, m.g1, m.g2)
      [] k = 3 -> Date(m.g1, m.g2, m.g3)
      [] k = 4 -> Date(m.g3, m.g2, m.g1)
      [] k = 5 -> Date(m.g3, m.g1, m.g2)

\* The k-th formatter applied to a match: which groups become year, month
\* and day.  None of the formatters can raise: int() is applied to digits.
DateFormat(m, k) ==
    CASE k = 1 -> Date(m.g3, m.g1, m.g2)
      [] k = 2 -> Date(m.g3, m.g1, m.g2)
      [] k = 3 -> Date(m.g1, m.g2, m.g3)
      [] k = 4 -> Date(m.g3, m.g2, m.g1)
      [] k = 5 -> Date(m.g3, m.g1, m.g2)

\* re.search(pattern, text): is there a match, and the leftmost one.
DateSearchHits(s, k) == {i \in 1..Len(s) : DateMatchAt(s, i, k).ok}

DateSearch(s, k) ==
    LET hits == DateSearchHits(s, k)
    IN  DateMatchAt(s, CHOOSE i \in hits : \A h \in hits : i <= h, k)

\* The pattern whose match extract_date returns: the first, in the order of
\* the list, that matches anywhere in the text; 0 if none does.
DatePatternUsed(s) ==
    LET matching == {k \in 1..5 : DateSearchHits(s, k) # {}}
    IN  IF matching = {} THEN 0
        ELSE CHOOSE k \in matching : \A h \in matching : k <= h

\* extract_date: NoDate stands for None.
extract_date(s) ==
    LET k == DatePatternUsed(s)
    IN  IF k = 0 THEN NoDate ELSE DateFormat(DateSearch(s, k), k)

---------------------------------------------------------------------------
(* Calendar: datetime.strptime(.., "%Y-%m-%d"), timedelta, comparison *)

IsLeap(y) == (y % 4 = 0 /\ y % 100 # 0) \/ y % 400 = 0

DaysInMonth(y, m) ==
    CASE m \in {1, 3, 5, 7, 8, 10, 12} -> 31
      [] m \in {4, 6, 9, 11} -> 30
      [] m = 2 -> IF IsLeap(y) THEN 29 ELSE 28

\* strptime succeeds exactly on a real calendar date of the years 1..9999.
ParsesAsDate(dt) ==
    /\ dt.y >= 1 /\ dt.y <= 9999
    /\ dt.m >= 1 /\ dt.m <= 12
    /\ dt.d >= 1 /\ dt.d <= DaysInMonth(dt.y, dt.m)

RECURSIVE DaysBeforeMonth(_, _)
DaysBeforeMonth(y, m) ==
    IF m = 1 THEN 0 ELSE DaysBeforeMonth(y, m - 1) + DaysInMonth(y, m - 1)

\* date.toordinal(): days since 0001-01-01, that day being 1.
Ordinal(dt) ==
    LET y1 == dt.y - 1
    IN  365 * y1 + (y1 \div 4) - (y1 \div 100) + (y1 \div 400)
        + DaysBeforeMonth(dt.y, dt.m) + dt.d

\* The calendar date before dt.
PreviousDay(dt) ==
    IF dt.d > 1 THEN Date(dt.y, dt.m, dt.d - 1)
    ELSE IF dt.m > 1 THEN Date(dt.y, dt.m - 1, DaysInMonth(dt.y, dt.m - 1))
    ELSE Date(dt.y - 1, 12, 31)

RECURSIVE DaysBack(_, _)
DaysBack(dt, n) == IF n = 0 THEN dt ELSE DaysBack(PreviousDay(dt), n - 1)

\* (t - timedelta(days = n)).strftime("%Y-%m-%d"), for an instant t.
DateMinusDays(t, n) == DaysBack(Date(t.y, t.m, t.d), n)

\* Mutant: the instants are compared as dates, the time of day dropped.
NotBefore_DaysOnly(dt, t, n) == Ordinal(dt) >= Ordinal(t) - n

\* sale_date >= t - timedelta(days = n), sale_date being the midnight of dt
\* and t carrying a time of day of t.secs seconds, 0 <= t.secs < 86400.
NotBefore(dt, t, n) ==
    IF t.secs = 0 THEN Ordinal(dt) >= Ordinal(t) - n
    ELSE Ordinal(dt) > Ordinal(t) - n

---------------------------------------------------------------------------
(* The environment of one request *)

\* Passages of the vector store.  A sale without a date:
Passage_NoDate ==
    <<"1", "5", "2", ",", "0", "0", "0", " ", "d", "o", "l", "l", "a", "r", "s">>

\* a sale whose date is no calendar date, its price stated twice:
Passage_BadDate ==
    <<"$", "1", "4", "0", ",", "5", "0", "0", " ", "U", "S", "D", " ", " ",
      "1", "3", "/", "4", "5", "/", "2", "0", "2", "6">>

\* an old sale at an extreme price:
Passage_Old ==
    <<"$", "9", "0", "0", ",", "2", "5", "0", " ",
      "1", "/", "5", "/", "2", "0", "2", "0">>

\* a price below the range:
Passage_Cheap ==
    <<"$", "5", "0", "0", " ", "M", "a", "y", " ", "5", ",", " ",
      "2", "0", "2", "6">>

\* and three sales of 2026-11-01, at 150000, 160000 and 155000.
Passage_Today ==
    <<"$", "1", "5", "0", ",", "0", "0", "0", " ",
      "1", "1", "/", "1", "/", "2", "0", "2", "6">>

Passage_Dash ==
    <<"$", "1", "6", "0", ",", "0", "0", "0", " ",
      "1", "1", "-", "0", "1", "-", "2", "0", "2", "6">>

Passage_YearFirst ==
    <<"$", "1", "5", "5", ",", "0", "0", "0", " ",
      "2", "0", "2", "6", "/", "1", "1", "/", "1">>

\* Sales of 90 and of 180 days before 2026-11-01:
Passage_Day90 ==
    <<"$", "1", "2", "0", ",", "0", "0", "0", " ",
      "8", "/", "3", "/", "2", "0", "2", "6">>

Passage_Day180 ==
    <<"$", "1", "3", "0", ",", "0", "0", "0", " ",
      "5", "/", "5", "/", "2", "0", "2", "6">>

MixedStore == {Passage_NoDate, Passage_BadDate, Passage_Old}

TodayStore == {Passage_Today, Passage_Dash, Passage_YearFirst}

BoundaryStore == {Passage_Day90, Passage_Day180, Passage_Cheap}

Stores == {MixedStore, TodayStore, BoundaryStore}

Passages == UNION Stores

\* datetime.now(): 2026-11-01, at midnight or at noon.
Nows == {[y |-> 2026, m |-> 11, d |-> 1, secs |-> s] : s \in {0, 43200}}

Description_Clean == <<"c", "l", "e", "a", "n">>

Description_Hours == <<"2", "0", "0", "0", " ", "H", "o", "u", "r", "s">>

Payloads ==
    {[make |-> "John Deere", model |-> "8370R", year |-> 2024,
      condition |-> "good", description |-> Description_Clean],
     [make |-> "Case IH", model |-> "4440", year |-> 2015,
      condition |-> "Poor", description |-> Description_Hours]}

\* Sequences of at most n passages of the store st.
RECURSIVE ResultLists(_, _)
ResultLists(st, n) ==
    IF n = 0 THEN {<<>>}
    ELSE LET shorter == ResultLists(st, n - 1)
         IN  shorter \cup {Append(r, p) : r \in {x \in shorter : Len(x) = n - 1},
                                          p \in st}

NotSet == [unset |-> TRUE]

---------------------------------------------------------------------------
(* search_with_rag: building the records, rag_retriever.py:244-304 *)

\* clean_content[:1000]
DisplayLen == 1000

Truncate(s) == SubSeq(s, 1, Min(Len(s), DisplayLen))

\* sum(all_prices) / len(all_prices) if all_prices else 0.0
AveragePrice(all_prices) ==
    IF all_prices = <<>> THEN RatInt(0)
    ELSE RatMean([j \in 1..Len(all_prices) |-> RatInt(all_prices[j])])

\* Mutant: the skip test compares with 0, so a passage without a price is kept.
IsUnreasonablePrice_Zero(avg_price) == RatLt(avg_price, RatInt(0))

\* if avg_price < 1000: continue
IsUnreasonablePrice(avg_price) == RatLt(avg_price, RatInt(MinPrice))

DefaultDays == 30

\* Mutant: a passage without a date gets no default.
SaleDateOf_NoDefault(clean_content, t) == extract_date(clean_content)

\* extracted_date, with the default for a passage without a date.
SaleDateOf(clean_content, t) ==
    LET extracted_date == extract_date(clean_content)
    IN  IF extracted_date = NoDate THEN DateMinusDays(t, DefaultDays)
        ELSE extracted_date

\* Is a result with this content skipped by one of the two `continue`
\* statements?
SkipsContent(content) ==
    \/ content = <<>>
    \/ IsUnreasonablePrice(AveragePrice(extract_prices(clean_and_normalize_text(content))))

\* sale_id = f"{item_name} - {auction}" (lines 292-293): always a string.
\* Its text, made of the brand, the model and the auction company, is not
\* read by any later stage; one string stands for all of them.
SaleId == "item_name - auction"

\* The item appended for a result that is not skipped.  The display fields
\* item_name and auction_company are not read by any later stage.
ItemOf(content, t) ==
    LET clean_content == clean_and_normalize_text(content)
    IN  [sale_id   |-> SaleId,
         price     |-> AveragePrice(extract_prices(clean_content)),
         sale_date |-> SaleDateOf(clean_content, t),
         text      |-> Truncate(clean_content)]

\* SkipsContent and ItemOf tabulated over the passages and instants of the
\* environment, so that each passage is matched once.
SkipTable == [content \in Passages |-> SkipsContent(content)]

ItemTable == [content \in Passages, t \in Nows |-> ItemOf(content, t)]

IsSkipped(content) == SkipTable[content]

BuildItem(content, t) == ItemTable[content, t]

\* The loop over results: serializable_results after result i.
RECURSIVE BuildResults(_, _, _)
BuildResults(rs, i, t) ==
    IF i = 0 THEN <<>>
    ELSE IF IsSkipped(rs[i]) THEN BuildResults(rs, i - 1, t)
         ELSE Append(BuildResults(rs, i - 1, t), BuildItem(rs[i], t))

---------------------------------------------------------------------------
(* search_with_rag: recency filter, rag_retriever.py:306-344 *)

RecentDays == 90

BackupDays == 180

MinSample == 3

\* The branch of the try block an item takes.
InRecent90(item, t) ==
    ParsesAsDate(item.sale_date) /\ NotBefore(item.sale_date, t, RecentDays)

\* Mutant: the except clause drops the item.
InRecent180_DropsUnparsed(item, t) ==
    /\ ParsesAsDate(item.sale_date)
    /\ ~NotBefore(item.sale_date, t, RecentDays)
    /\ NotBefore(item.sale_date, t, BackupDays)

InRecent180(item, t) ==
    \/ ~ParsesAsDate(item.sale_date)
    \/ /\ ~NotBefore(item.sale_date, t, RecentDays)
       /\ NotBefore(item.sale_date, t, BackupDays)

Recent90(items, t) == SelectSeq(items, LAMBDA item : InRecent90(item, t))

Recent180(items, t) == SelectSeq(items, LAMBDA item : InRecent180(item, t))

\* Mutant: the 90-day list is taken as soon as it has 2 records.
ExtendTo180_Two(items, t) ==
    IF Len(Recent90(items, t)) < MinSample - 1
    THEN Recent90(items, t) \o Recent180(items, t)
    ELSE Recent90(items, t)

\* Lines 333-339: extend to 180 days when fewer than 3 are recent.
ExtendTo180(items, t) ==
    IF Len(Recent90(items, t)) < MinSample
    THEN Recent90(items, t) \o Recent180(items, t)
    ELSE Recent90(items, t)

\* Mutant: the fallback to all sales is missing.
UseAllIfFew_Never(selected, items) == selected

\* Mutant: the fallback appends all sales to the ones selected.
UseAllIfFew_Appends(selected, items) ==
    IF Len(selected) < MinSample THEN selected \o items ELSE selected

\* Lines 342-344: use everything when there are still fewer than 3.
UseAllIfFew(selected, items) ==
    IF Len(selected) < MinSample THEN items ELSE selected

RecencyFilter(items, t) == UseAllIfFew(ExtendTo180(items, t), items)

---------------------------------------------------------------------------
(* search_with_rag: outlier removal, rag_retriever.py:346-368 *)

OutlierMinSample == 5

PricesOf(items) == [j \in 1..Len(items) |-> items[j].price]

\* Mutant: the percentile is the price below the virtual index, with no
\* interpolation.
Percentile_Lower(prices, q) ==
    SortSeq(prices, RatLt)[(((Len(prices) - 1) * q) \div 100) + 1]

\* np.percentile(prices, q), linear interpolation: the value at the virtual
\* index (n - 1) * q / 100 of the sorted prices.
Percentile(prices, q) ==
    LET sorted == SortSeq(prices, RatLt)
        pos100 == (Len(prices) - 1) * q
        lo     == (pos100 \div 100) + 1
        frac   == pos100 % 100
    IN  IF frac = 0 THEN sorted[lo]
        ELSE RatAdd(sorted[lo],
                    RatScale(RatSub(sorted[lo + 1], sorted[lo]), frac, 100))

\* Mutant: the bounds are the quartiles themselves.
IQRBounds_Quartiles(prices) ==
    [lower |-> Percentile(prices, 25), upper |-> Percentile(prices, 75)]

\* lower_bound and upper_bound: q1 - 1.5 * iqr and q3 + 1.5 * iqr.
IQRBounds(prices) ==
    LET q1  == Percentile(prices, 25)
        q3  == Percentile(prices, 75)
        iqr == RatSub(q3, q1)
    IN  [lower |-> RatSub(q1, RatScale(iqr, 3, 2)),
         upper |-> RatAdd(q3, RatScale(iqr, 3, 2))]

\* filtered_results
WithinBounds(items) ==
    LET b == IQRBounds(PricesOf(items))
    IN  SelectSeq(items, LAMBDA item : /\ RatLeq(b.lower, item.price)
                                       /\ RatLeq(item.price, b.upper))

\* recent_results after the outlier block, for a list of at least 5.
KeepOrRevert(items, filtered) ==
    IF Len(items) - Len(filtered) > 0 /\ Len(filtered) >= MinSample
    THEN filtered ELSE items

\* Mutant: the comprehension keeps the records outside the bounds, and its
\* result is assigned without the test of its length.
RemoveOutliers_KeepsOutliers(items) ==
    LET b == IQRBounds(PricesOf(items))
    IN  IF Len(items) >= OutlierMinSample
        THEN SelectSeq(items, LAMBDA item : \/ RatLt(item.price, b.lower)
                                            \/ RatLt(b.upper, item.price))
        ELSE items

\* Lines 347-368: recent_results after the outlier block.
RemoveOutliers(items) ==
    IF Len(items) >= OutlierMinSample
    THEN KeepOrRevert(items, WithinBounds(items))
    ELSE items

---------------------------------------------------------------------------
(* run_chain, orchestrator.py:5-46 *)

UpperCase == <<"A", "B", "C", "D", "E", "F", "G", "H", "I", "J", "K", "L", "M",
               "N", "O", "P", "Q", "R", "S", "T", "U", "V", "W", "X", "Y", "Z">>

LowerCase == <<"a", "b", "c", "d", "e", "f", "g", "h", "i", "j", "k", "l", "m",
               "n", "o", "p", "q", "r", "s", "t", "u", "v", "w", "x", "y", "z">>

\* str.lower()
Lower(s) ==
    [j \in 1..Len(s) |->
        IF \E k \in 1..26 : UpperCase[k] = s[j]
        THEN LowerCase[CHOOSE k \in 1..26 : UpperCase[k] = s[j]]
        ELSE s[j]]

Lit_hours == <<"h", "o", "u", "r", "s">>

\* re.search(r'(\d+)\s*hours', description.lower()): the indexes of a match.
HoursHits(s) ==
    {i \in 1..Len(s) :
        LET n == RunLen(s, i, Digits)
        IN  n >= 1 /\ LiteralAt(s, i + n + RunLen(s, i + n, Whitespace), Lit_hours)}

\* payload after lines 14-33: 'hours' is set from the description when there
\* are comps, the description names hours and the key is not there yet.
WithHours(p, comps_json) ==
    LET s    == Lower(p.description)
        hits == HoursHits(s)
        i    == CHOOSE i \in hits : \A h \in hits : i <= h
    IN  IF comps_json # <<>> /\ hits # {} /\ "hours" \notin DOMAIN p
        THEN [k \in DOMAIN p \cup {"hours"} |->
                 IF k = "hours" THEN Number(s, i, RunLen(s, i, Digits)) ELSE p[k]]
        ELSE p

\* dict.get(key, default)
Get(dict, key, default) == IF key \in DOMAIN dict THEN dict[key] ELSE default

---------------------------------------------------------------------------
(* valuator.acall, valuator.py:62-174 *)

\* conf = "high" if len(prices) >= 5 else "medium" if len(prices) >= 3 else "low"
DummyHigh == 5

DummyMedium == 3

DummyConfidence(prices) ==
    IF Len(prices) >= DummyHigh THEN "high"
    ELSE IF Len(prices) >= DummyMedium THEN "medium" ELSE "low"

\* round(x, 2): x to the nearest hundredth, ties to the even hundredth.
RoundCents(x) ==
    LET q == (x.n * 100) \div x.d
        r == (x.n * 100) % x.d
    IN  IF 2 * r < x.d THEN Rat(q, 100)
        ELSE IF 2 * r > x.d THEN Rat(q + 1, 100)
        ELSE IF q % 2 = 0 THEN Rat(q, 100) ELSE Rat(q + 1, 100)

\* fmv = round(mean(prices), 2) if prices else 0.0
DummyFmv(prices) ==
    IF prices = <<>> THEN RatInt(0) ELSE RoundCents(RatMean(prices))

ZeroAdjustments == [age |-> 0, usage |-> 0, condition |-> 0]

\* comps[:3]
FirstThree(cs) == SubSeq(cs, 1, Min(Len(cs), 3))

\* The dict returned when USE_DUMMY is set (lines 68-80).
DummyValuation(data) ==
    LET cs     == Get(data, "comps", <<>>)
        prices == PricesOf(cs)
    IN  [fmv         |-> DummyFmv(prices),
         confidence  |-> DummyConfidence(prices),
         adjustments |-> ZeroAdjustments,
         top3        |-> FirstThree(cs),
         explanation |-> "Dummy valuation using sample data"]

\* The dict of the outer except clause (lines 164-174).
ValuatorFailure ==
    [error       |-> "Valuator agent failed",
     fmv         |-> RatInt(0),
     confidence  |-> "low",
     adjustments |-> ZeroAdjustments,
     top3        |-> <<>>,
     explanation |-> "Error processing valuation"]

Confidences == {"low", "medium", "high"}

\* What the hosted model may answer to SYSTEM_PROMPT: a dict of the shape
\* asked for, whose numbers the code does not compute or check.  The values
\* are samples of the numbers it may state.
ModelValuations(data) ==
    {[fmv         |-> v,
      confidence  |-> c,
      adjustments |-> ZeroAdjustments,
      top3        |-> FirstThree(Get(data, "comps", <<>>)),
      explanation |-> "Model valuation"] :
        v \in {RatInt(0), RatInt(162800)}, c \in {"low", "high"}}

\* The dicts of lines 130-133 and 157-160: the answer holds no text, or its
\* text is not JSON.
ValuatorNoText == [error |-> "No content found in response"]

ValuatorBadJson == [error |-> "Failed to parse JSON", raw_result |-> "text"]

---------------------------------------------------------------------------
(* formatter.acall, formatter.py:50-198 *)

\* null where a price is expected.
NoPrice == [n |-> 0, d |-> 0]

\* One entry of comparable_sales (lines 63-68).  c.get(key) is null for a
\* missing key: "None" for a string, NoPrice for a number, NoDate for a date.
FormatSale(c) ==
    [sale_id        |-> Get(c, "sale_id", "None"),
     price          |-> Get(c, "price", NoPrice),
     sale_date      |-> Get(c, "sale_date", NoDate),
     distance_miles |-> Get(c, "distance_miles", "None")]

\* The document json.dumps writes when USE_DUMMY is set (lines 56-74).
DummyFormat(data) ==
    LET top3 == Get(data, "top3", <<>>)
    IN  [fair_market_value |-> Get(data, "fmv", RatInt(0)),
         confidence        |-> Get(data, "confidence", "low"),
         comparable_sales  |-> [j \in 1..Len(top3) |-> FormatSale(top3[j])],
         adjustments       |-> Get(data, "adjustments", ZeroAdjustments),
         explanation       |-> Get(data, "explanation", "")]

\* The document of the outer except clause (lines 188-198).
FormatterFailure ==
    [error             |-> "Formatter agent failed",
     fair_market_value |-> RatInt(0),
     confidence        |-> "low",
     comparable_sales  |-> <<>>,
     adjustments       |-> ZeroAdjustments,
     explanation       |-> "Error processing valuation"]

\* Line 169: the answer holds no text.
FormatterNoText == [error |-> "Could not extract text from response"]

\* What the hosted model may answer: the restated dict, or a document whose
\* value it changed.
ModelFormats(data) ==
    {DummyFormat(data),
     [DummyFormat(data) EXCEPT !.fair_market_value = RatInt(100)]}

---------------------------------------------------------------------------
(* The pipeline as a state machine *)

\* Values of the pipeline's variables while it is not running.
PipelineIdle ==
    /\ useDummy = TRUE
    /\ payload = <<>>
    /\ now = <<>>
    /\ store = {}
    /\ pc = "idle"
    /\ results = <<>>
    /\ serializable_results = <<>>
    /\ skipped = {}
    /\ recent_results = <<>>
    /\ filtered_results = <<>>
    /\ removed_count = 0
    /\ caught = FALSE
    /\ comps = <<>>
    /\ valuation_raw = <<>>
    /\ response = <<>>

TextIdle ==
    /\ text = <<>>
    /\ once = <<>>
    /\ twice = <<>>
    /\ tpc = "idle"

PairIdle == calls = <<>>

ExtractIdle ==
    /\ xtext = <<>>
    /\ xprices = <<>>
    /\ xdate = NoDate
    /\ xhint = <<>>
    /\ xbrand = <<>>
    /\ xauction = <<>>
    /\ xpc = "idle"

QueryIdle ==
    /\ qpayload = <<>>
    /\ structured_query = <<>>
    /\ qmake = <<>>
    /\ qmodel = <<>>
    /\ qyear = <<>>
    /\ qpc = "idle"

Init ==
    /\ TextIdle
    /\ PairIdle
    /\ QueryIdle
    /\ ExtractIdle
    /\ useDummy \in BOOLEAN
    /\ payload \in Payloads
    /\ now \in Nows
    /\ store \in Stores
    /\ pc = "search"
    /\ results = <<>>
    /\ serializable_results = <<>>
    /\ skipped = {}
    /\ recent_results = <<>>
    /\ filtered_results = <<>>
    /\ removed_count = 0
    /\ caught = FALSE
    /\ comps = <<>>
    /\ valuation_raw = NotSet
    /\ response = NotSet

\* search_with_rag, lines 223-241: the search returns at most k passages.
Search ==
    /\ pc = "search"
    /\ results' \in ResultLists(store, MaxResults)
    /\ pc' = "build"
    /\ UNCHANGED <<caught, useDummy, payload, now, store, serializable_results, skipped,
                   recent_results, filtered_results, removed_count, comps,
                   valuation_raw, response>>
    /\ UNCHANGED <<textVars, pairVars, extractVars, queryVars>>

\* Mutant: the except clause returns the records built so far.
ExceptResult_Partial == serializable_results

\* What the except clause returns (line 376).
ExceptResult == <<>>

\* search_with_rag, lines 223-241 and 373-376: the client, the store id or
\* the search raises; the function returns []; acall returns it.
SearchFails ==
    /\ pc = "search"
    /\ caught' = TRUE
    /\ comps' = ExceptResult
    /\ payload' = WithHours(payload, ExceptResult)
    /\ pc' = "valuate"
    /\ UNCHANGED <<useDummy, now, store, results, serializable_results, skipped,
                   recent_results, filtered_results, removed_count,
                   valuation_raw, response>>
    /\ UNCHANGED <<textVars, pairVars, extractVars, queryVars>>

\* search_with_rag, lines 244-304: the loop over the results.
BuildRecords ==
    /\ pc = "build"
    /\ serializable_results' = BuildResults(results, Len(results), now)
    /\ skipped' = {i \in 1..Len(results) : IsSkipped(results[i])}
    /\ pc' = "recency"
    /\ UNCHANGED <<caught, useDummy, payload, now, store, results, recent_results,
                   filtered_results, removed_count, comps, valuation_raw,
                   response>>
    /\ UNCHANGED <<textVars, pairVars, extractVars, queryVars>>

\* search_with_rag, lines 306-344.
FilterRecency ==
    /\ pc = "recency"
    /\ recent_results' = RecencyFilter(serializable_results, now)
    /\ pc' = "outliers"
    /\ UNCHANGED <<caught, useDummy, payload, now, store, results, serializable_results,
                   skipped, filtered_results, removed_count, comps,
                   valuation_raw, response>>
    /\ UNCHANGED <<textVars, pairVars, extractVars, queryVars>>

\* search_with_rag, lines 346-368.
FilterOutliers ==
    /\ pc = "outliers"
    /\ recent_results' = RemoveOutliers(recent_results)
    /\ filtered_results' = IF Len(recent_results) >= OutlierMinSample
                           THEN WithinBounds(recent_results) ELSE <<>>
    /\ removed_count' = IF Len(recent_results) >= OutlierMinSample
                        THEN Len(recent_results) - Len(WithinBounds(recent_results))
                        ELSE 0
    /\ pc' = "return"
    /\ UNCHANGED <<caught, useDummy, payload, now, store, results, serializable_results,
                   skipped, comps, valuation_raw, response>>
    /\ UNCHANGED <<textVars, pairVars, extractVars, queryVars>>

\* search_with_rag returns recent_results (line 371), acall returns it (line
\* 421), and run_chain reads the hours of the description (lines 13-33).
\* The locals of search_with_rag end with the call.
RetrieverReturns ==
    /\ pc = "return"
    /\ comps' = recent_results
    /\ payload' = WithHours(payload, recent_results)
    /\ results' = <<>>
    /\ serializable_results' = <<>>
    /\ skipped' = {}
    /\ recent_results' = <<>>
    /\ filtered_results' = <<>>
    /\ removed_count' = 0
    /\ pc' = "valuate"
    /\ UNCHANGED <<caught, useDummy, now, store, valuation_raw, response>>
    /\ UNCHANGED <<textVars, pairVars, extractVars, queryVars>>

\* search_with_rag, lines 243-368 and 373-376: a statement that processes
\* the results raises; the function returns []; acall returns it.  The
\* locals of search_with_rag end with the call.
ProcessingFails ==
    /\ pc \in {"build", "recency", "outliers"}
    /\ caught' = TRUE
    /\ comps' = ExceptResult
    /\ payload' = WithHours(payload, ExceptResult)
    /\ results' = <<>>
    /\ serializable_results' = <<>>
    /\ skipped' = {}
    /\ recent_results' = <<>>
    /\ filtered_results' = <<>>
    /\ removed_count' = 0
    /\ pc' = "valuate"
    /\ UNCHANGED <<useDummy, now, store, valuation_raw, response>>
    /\ UNCHANGED <<textVars, pairVars, extractVars, queryVars>>

ValuatorInput == [item |-> payload, comps |-> comps]

\* valuator.acall with USE_DUMMY set.
ValuateDummy ==
    /\ pc = "valuate"
    /\ useDummy
    /\ valuation_raw' = DummyValuation(ValuatorInput)
    /\ pc' = "format"
    /\ UNCHANGED <<caught, useDummy, payload, now, store, results, serializable_results,
                   skipped, recent_results, filtered_results, removed_count,
                   comps, response>>
    /\ UNCHANGED <<textVars, pairVars, extractVars, queryVars>>

\* valuator.acall with the hosted model: the model answers with a dict, with
\* no text or with text that is not JSON.
ValuateModel ==
    /\ pc = "valuate"
    /\ ~useDummy
    /\ valuation_raw' \in ModelValuations(ValuatorInput)
                            \cup {ValuatorNoText, ValuatorBadJson}
    /\ pc' = "format"
    /\ UNCHANGED <<caught, useDummy, payload, now, store, results, serializable_results,
                   skipped, recent_results, filtered_results, removed_count,
                   comps, response>>
    /\ UNCHANGED <<textVars, pairVars, extractVars, queryVars>>

\* valuator.acall: no API key, or both calls of the hosted model raise.
ValuateFails ==
    /\ pc = "valuate"
    /\ ~useDummy
    /\ valuation_raw' = ValuatorFailure
    /\ pc' = "format"
    /\ UNCHANGED <<caught, useDummy, payload, now, store, results, serializable_results,
                   skipped, recent_results, filtered_results, removed_count,
                   comps, response>>
    /\ UNCHANGED <<textVars, pairVars, extractVars, queryVars>>

\* formatter.acall with USE_DUMMY set, and run_chain's return.
FormatDummy ==
    /\ pc = "format"
    /\ useDummy
    /\ response' = DummyFormat(valuation_raw)
    /\ pc' = "done"
    /\ UNCHANGED <<caught, useDummy, payload, now, store, results, serializable_results,
                   skipped, recent_results, filtered_results, removed_count,
                   comps, valuation_raw>>
    /\ UNCHANGED <<textVars, pairVars, extractVars, queryVars>>

\* formatter.acall with the hosted model, and run_chain's return.
FormatModel ==
    /\ pc = "format"
    /\ ~useDummy
    /\ response' \in ModelFormats(valuation_raw) \cup {FormatterNoText}
    /\ pc' = "done"
    /\ UNCHANGED <<caught, useDummy, payload, now, store, results, serializable_results,
                   skipped, recent_results, filtered_results, removed_count,
                   comps, valuation_raw>>
    /\ UNCHANGED <<textVars, pairVars, extractVars, queryVars>>

\* formatter.acall: no API key, or both calls of the hosted model raise.
FormatFails ==
    /\ pc = "format"
    /\ ~useDummy
    /\ response' = FormatterFailure
    /\ pc' = "done"
    /\ UNCHANGED <<caught, useDummy, payload, now, store, results, serializable_results,
                   skipped, recent_results, filtered_results, removed_count,
                   comps, valuation_raw>>
    /\ UNCHANGED <<textVars, pairVars, extractVars, queryVars>>

Next ==
    \/ Search
    \/ SearchFails
    \/ BuildRecords
    \/ FilterRecency
    \/ FilterOutliers
    \/ RetrieverReturns
    \/ ProcessingFails
    \/ ValuateDummy
    \/ ValuateModel
    \/ ValuateFails
    \/ FormatDummy
    \/ FormatModel
    \/ FormatFails

Spec == Init /\ [][Next]_vars

---------------------------------------------------------------------------
(* Properties of the pipeline *)

\* The valuator has returned.
Valued == pc \in {"format", "done"}

\* C1: when zero sale records survive filtering, run_chain fails with an
\* insufficient-data error; it never returns a result that carries a fair
\* market value.
C1_FailsWithoutRecords ==
    (pc = "done" /\ comps = <<>>) =>
        /\ "raised" \in DOMAIN response
        /\ "fair_market_value" \notin DOMAIN response

AtLeast1000(items) ==
    \A j \in 1..Len(items) : RatLeq(RatInt(1000), items[j].price)

StatesPriceInRange(content) ==
    LET s == clean_and_normalize_text(content)
    IN  \E k \in 1..3 :
            LET ms == FindAll(s, 1, k)
            IN  \E j \in 1..Len(ms) :
                    /\ RemoveChar(ms[j], ",") # <<>>
                    /\ Len(StripLeadingZeros(RemoveChar(ms[j], ","))) <= 7
                    /\ DecimalValue(RemoveChar(ms[j], ",")) >= 1000
                    /\ DecimalValue(RemoveChar(ms[j], ",")) <= 1000000

PriceStated == [content \in Passages |-> StatesPriceInRange(content)]

\* C3: the builder produces no record for a passage without a parseable price
\* in [1000, 1000000] and at most one record per passage: the records are no
\* more than the passages, and every dropped passage has no price in range.
C3_BuilderDropsOnlyUnpriced ==
    pc = "recency" =>
        /\ Len(serializable_results) <= Len(results)
        /\ Len(serializable_results) + Cardinality(skipped) = Len(results)
        /\ \A i \in 1..Len(results) : i \in skipped <=> ~PriceStated[results[i]]

\* Of several passages some were dropped and some became records.
C3_Witness ==
    /\ pc = "recency"
    /\ skipped # {}
    /\ Len(serializable_results) >= 2

\* C5: the recency filter takes within90 if it has at least 3 records, else
\* within90 with within180 if together they have at least 3, else the whole
\* input.
C5_RecencySelection ==
    pc = "outliers" =>
        LET within90  == Recent90(serializable_results, now)
            within180 == Recent180(serializable_results, now)
        IN  recent_results =
                IF Len(within90) >= 3 THEN within90
                ELSE IF Len(within90) + Len(within180) >= 3
                     THEN within90 \o within180
                     ELSE serializable_results

\* The second rule is taken, with records of both buckets, and leaves an
\* older record out.
C5_Witness ==
    /\ pc = "outliers"
    /\ Len(Recent90(serializable_results, now)) = 2
    /\ Len(Recent180(serializable_results, now)) >= 1
    /\ Len(recent_results) < Len(serializable_results)

\* C6: the output of the recency filter has at least min(3, n) of its n input
\* records, and when it falls back to the all-time tier the output is the
\* input list.
C6_RecencyNeverStarves ==
    pc = "outliers" =>
        LET n         == Len(serializable_results)
            within90  == Recent90(serializable_results, now)
            within180 == Recent180(serializable_results, now)
        IN  /\ Len(recent_results) >= Min(3, n)
            /\ (Len(within90) < 3 /\ Len(within90) + Len(within180) < 3)
                   => recent_results = serializable_results

\* The fallback is taken for an input of at least 3 records, most of them
\* older than 180 days.
C6_Witness ==
    /\ pc = "outliers"
    /\ Len(serializable_results) >= 3
    /\ Len(Recent90(serializable_results, now))
           + Len(Recent180(serializable_results, now)) = 1
    /\ recent_results = serializable_results

\* C7: for an input of at least 5 records the outlier remover returns at
\* least 3; if fewer than 3 records are inside the IQR bounds it returns its
\* input unchanged.
C7_OutliersKeepThree ==
    LET input == RecencyFilter(serializable_results, now)
    IN  (pc = "return" /\ Len(input) >= 5) =>
            /\ Len(recent_results) >= 3
            /\ Len(filtered_results) < 3 => recent_results = input

\* Of 5 or more records some were outside the bounds and were dropped.
C7_Witness ==
    /\ pc = "return"
    /\ Len(RecencyFilter(serializable_results, now)) >= 5
    /\ removed_count > 0
    /\ recent_results = filtered_results

\* Is the sample standard deviation of the prices below 12 % of their mean?
\* (variance < (12/100)^2 * mean^2, the mean being positive.)
RelativeStdevBelow12(prices) ==
    LET n    == Len(prices)
        mean == RatMean(prices)
        sq   == [j \in 1..n |-> RatMul(RatSub(prices[j], mean),
                                       RatSub(prices[j], mean))]
    IN  RatLt(RatScale(RatSum(sq), 1, n - 1),
              RatScale(RatMul(mean, mean), 144, 10000))

\* C8: the confidence of a valuation is high only if the sample has at least
\* 25 records and a relative standard deviation below 0.12; it is medium if
\* not high and the sample has at least 10 records; otherwise it is low.
\* Stated of the valuation the code computes itself.
C8_ConfidenceTiers ==
    (Valued /\ useDummy) =>
        LET n    == Len(comps)
            conf == valuation_raw.confidence
        IN  /\ conf = "high" => (n >= 25 /\ RelativeStdevBelow12(PricesOf(comps)))
            /\ (conf # "high" /\ n >= 10) => conf = "medium"
            /\ (conf # "high" /\ n < 10) => conf = "low"

IsMultipleOf100(x) == x.d = 1 /\ x.n % 100 = 0

\* C9: the fair market value of every valuation result produced from a
\* non-empty sample is an exact multiple of 100.
C9_ValueMultipleOf100 ==
    (pc = "done" /\ comps # <<>> /\ "fair_market_value" \in DOMAIN response) =>
        IsMultipleOf100(response.fair_market_value)

\* Scenario A: 3 surviving records priced 150000, 160000 and 155000, all
\* dated today, condition good, age 2 years, no usage hours.
ScenarioA ==
    /\ Len(comps) = 3
    /\ {comps[j].price : j \in 1..3}
           = {RatInt(150000), RatInt(160000), RatInt(155000)}
    /\ \A j \in 1..3 : comps[j].sale_date = Date(now.y, now.m, now.d)
    /\ payload.condition = "good"
    /\ now.y - payload.year = 2
    /\ "hours" \notin DOMAIN payload

\* C10: in scenario A the valuation yields fair market value 162800 and
\* confidence low.  Stated of the valuation the code computes itself.
C10_ScenarioA ==
    (pc = "done" /\ useDummy /\ ScenarioA) =>
        /\ response.fair_market_value = RatInt(162800)
        /\ response.confidence = "low"

\* Does record a score strictly higher than record b whatever the weights?
\* The weight of a sale falls with its age (e^(-days/365)), so a strictly
\* higher price at a date that is not older is a strictly higher score.
Outscores(a, b) ==
    /\ ParsesAsDate(a.sale_date) /\ ParsesAsDate(b.sale_date)
    /\ RatLt(b.price, a.price)
    /\ Ordinal(a.sale_date) >= Ordinal(b.sale_date)

\* C11: the comparable sales of a valuation result are at most 3 records,
\* they are the records of the sample with the highest price x weight score,
\* and they are in descending order of that score.  Stated of the valuation
\* the code computes itself.
C11_TopThreeByScore ==
    (pc = "done" /\ useDummy) =>
        LET sales == response.comparable_sales
            n     == Len(sales)
        IN  /\ n <= 3
            /\ n = Min(3, Len(comps))
            /\ \A i, j \in 1..n : i < j => ~Outscores(sales[j], sales[i])
            /\ \A k \in 1..Len(comps) :
                   (\A i \in 1..n : sales[i] # FormatSale(comps[k]))
                       => \A i \in 1..n : ~Outscores(comps[k], sales[i])

\* The percentage of a condition, whatever its letter case.
ConditionPercent(c) ==
    CASE c \in {"excellent", "Excellent", "EXCELLENT"} -> 12
      [] c \in {"good", "Good", "GOOD"} -> 5
      [] c \in {"fair", "Fair", "FAIR"} -> -8
      [] c \in {"poor", "Poor", "POOR"} -> -20
      [] OTHER -> 0

\* Ten times the age discount in percent: 1.5 % for each year beyond 3.
AgeDiscountTenths(age) == IF age > 3 THEN 15 * (age - 3) ELSE 0

\* C12: the reported adjustments are the percentages applied: condition +12,
\* +5, -8, -20 or 0, and an age discount of 1.5 % x (age - 3) beyond 3 years.
\* Stated of the valuation the code computes itself, from a non-empty sample.
C12_AdjustmentsReported ==
    (pc = "done" /\ useDummy /\ comps # <<>>) =>
        /\ response.adjustments.condition = ConditionPercent(payload.condition)
        /\ 10 * Abs(response.adjustments.age)
               = AgeDiscountTenths(now.y - payload.year)

\* C13: the document the formatter returns carries the numbers of the
\* valuation it was handed: fmv, confidence and adjustments, on every path.
C13_FormatterKeepsNumbers ==
    (pc = "done" /\ "fmv" \in DOMAIN valuation_raw) =>
        /\ "fair_market_value" \in DOMAIN response
        /\ response.fair_market_value = valuation_raw.fmv
        /\ response.confidence = valuation_raw.confidence
        /\ response.adjustments = valuation_raw.adjustments

\* pydantic's validation of a document against ValuationResponse
\* (schemas.py:10-29): the required fields are there and are not null;
\* other keys are ignored.
ValidSale(c) ==
    /\ {"sale_id", "price", "sale_date"} \subseteq DOMAIN c
    /\ c.sale_id # "None"
    /\ c.price # NoPrice
    /\ c.sale_date # NoDate

ValidatesAsValuationResponse(doc) ==
    /\ {"fair_market_value", "confidence", "comparable_sales", "adjustments",
        "explanation"} \subseteq DOMAIN doc
    /\ doc.confidence \in Confidences
    /\ \A j \in 1..Len(doc.comparable_sales) : ValidSale(doc.comparable_sales[j])
    /\ {"age", "usage", "condition"} \subseteq DOMAIN doc.adjustments

\* C14: every document run_chain returns validates against the
\* ValuationResponse schema, whatever the three steps did.
C14_ResponseValidates ==
    pc = "done" => ValidatesAsValuationResponse(response)

\* The age of a sale at the instant t, in seconds: the sale is dated at the
\* midnight of its day.
AgeSeconds(item, t) ==
    (Ordinal(Date(t.y, t.m, t.d)) - Ordinal(item.sale_date)) * 86400 + t.secs

Dated(items) == SelectSeq(items, LAMBDA item : ParsesAsDate(item.sale_date))

\* C16 as stated: a dated record is in within90 exactly when its sale date
\* is >= now - 90 days, in within180 exactly when 90d <= age < 180d, and in
\* neither when its age is 180 days or more.
C16_BucketsAsStated ==
    pc = "outliers" =>
        \A j \in 1..Len(Dated(serializable_results)) :
            LET item == Dated(serializable_results)[j]
                age  == AgeSeconds(item, now)
            IN  /\ InRecent90(item, now) <=> age <= 90 * 86400
                /\ InRecent180(item, now)
                       <=> (90 * 86400 <= age /\ age < 180 * 86400)
                /\ age >= 180 * 86400
                       => ~InRecent90(item, now) /\ ~InRecent180(item, now)

\* C16, amended: a dated record is in within90 exactly when its age is at
\* most 90 days, in within180 exactly when 90d < age <= 180d, and in neither
\* when its age is more than 180 days; the selection is made of these
\* buckets.
C16_BucketBoundaries ==
    pc = "outliers" =>
        /\ \A j \in 1..Len(Dated(serializable_results)) :
               LET item == Dated(serializable_results)[j]
                   age  == AgeSeconds(item, now)
               IN  /\ InRecent90(item, now) <=> age <= 90 * 86400
                   /\ InRecent180(item, now)
                          <=> (90 * 86400 < age /\ age <= 180 * 86400)
                   /\ age > 180 * 86400
                          => ~InRecent90(item, now) /\ ~InRecent180(item, now)
        /\ \A j \in 1..Len(Dated(recent_results)) :
               \/ AgeSeconds(Dated(recent_results)[j], now) <= 180 * 86400
               \/ recent_results = serializable_results

\* At midnight, sales of exactly 90 and exactly 180 days ago were selected,
\* the first as recent and the second from the 180-day bucket.
C16_Witness ==
    /\ pc = "outliers"
    /\ now.secs = 0
    /\ \E i, j \in 1..Len(recent_results) :
           /\ ParsesAsDate(recent_results[i].sale_date)
           /\ ParsesAsDate(recent_results[j].sale_date)
           /\ AgeSeconds(recent_results[i], now) = 90 * 86400
           /\ AgeSeconds(recent_results[j], now) = 180 * 86400
    /\ Len(Recent90(serializable_results, now)) < 3

Undated(items) == SelectSeq(items, LAMBDA item : ~ParsesAsDate(item.sale_date))

\* C17: a record whose sale date is no calendar date is neither discarded
\* nor taken as recent: it is in within180, and it counts toward the 3
\* records the 180-day tier needs.
C17_UnparsedDateIn180 ==
    pc = "outliers" =>
        LET within90  == Recent90(serializable_results, now)
            within180 == Recent180(serializable_results, now)
            undated   == Undated(serializable_results)
        IN  /\ Undated(within90) = <<>>
            /\ Undated(within180) = undated
            /\ Len(within90) < 3 => Undated(recent_results) = undated
            /\ (Len(within90) < 3
                    /\ Len(within90) + Len(Dated(within180)) + Len(undated) >= 3)
                   => recent_results = within90 \o within180

\* Records with a date that is no calendar date made up the 3 of the
\* 180-day tier, which left an older record out.
C17_Witness ==
    /\ pc = "outliers"
    /\ Len(Undated(recent_results)) >= 1
    /\ Len(Dated(recent_results)) < 3
    /\ Len(recent_results) >= 3
    /\ Len(recent_results) < Len(serializable_results)

\* The k-th smallest of the prices.
KthSmallest(prices, k) ==
    LET values == {prices[j] : j \in 1..Len(prices)}
    IN  CHOOSE v \in values :
            /\ Cardinality({j \in 1..Len(prices) : RatLt(prices[j], v)}) < k
            /\ Cardinality({j \in 1..Len(prices) : RatLeq(prices[j], v)}) >= k

\* The q-th percentile by linear interpolation between the two prices next
\* to the position (n - 1) * q / 100.
Quartile(prices, q) ==
    LET pos100 == (Len(prices) - 1) * q
        below  == KthSmallest(prices, (pos100 \div 100) + 1)
        above  == KthSmallest(prices, Min((pos100 \div 100) + 2, Len(prices)))
    IN  RatScale(RatAdd(RatScale(below, 100 - (pos100 % 100), 1),
                        RatScale(above, pos100 % 100, 1)), 1, 100)

\* Is the price in [Q1 - 1.5 IQR, Q3 + 1.5 IQR], that is, in
\* [(5 Q1 - 3 Q3) / 2, (5 Q3 - 3 Q1) / 2]?
InsideFences(price, prices) ==
    LET q1 == Quartile(prices, 25)
        q3 == Quartile(prices, 75)
    IN  /\ RatLeq(RatSub(RatScale(q1, 5, 2), RatScale(q3, 3, 2)), price)
        /\ RatLeq(price, RatSub(RatScale(q3, 5, 2), RatScale(q1, 3, 2)))

\* C18: the outlier remover returns an input of fewer than 5 records
\* unchanged; for 5 or more, whenever it drops anything, its output is the
\* input records priced within [Q1 - 1.5 IQR, Q3 + 1.5 IQR], in input order.
C18_OutliersExactlyDropped ==
    pc = "return" =>
        LET input  == RecencyFilter(serializable_results, now)
            prices == PricesOf(input)
        IN  /\ Len(input) < 5 => recent_results = input
            /\ (Len(input) >= 5 /\ recent_results # input) =>
                   recent_results =
                       SelectSeq(input, LAMBDA item : InsideFences(item.price, prices))

\* Of 6 records, with quartiles between two prices, one was dropped and a
\* record priced above the median was kept.
C18_Witness ==
    /\ pc = "return"
    /\ Len(RecencyFilter(serializable_results, now)) = 6
    /\ Len(recent_results) = 5
    /\ Cardinality({recent_results[j].price : j \in 1..5}) >= 2
    /\ Quartile(PricesOf(RecencyFilter(serializable_results, now)), 75)
           \notin {recent_results[j].price : j \in 1..5}

---------------------------------------------------------------------------
(* Specification of the text functions: the input is any string of at most *)
(* MaxLen characters over TextAlphabet; the function is applied to it, and *)
(* then to its own result.                                                 *)

TextAlphabet == {"$", ",", "7", " ", "a"}

RECURSIVE StringsUpTo(_)
StringsUpTo(n) ==
    IF n = 0 THEN {<<>>}
    ELSE LET shorter == StringsUpTo(n - 1)
         IN  shorter \cup {Append(s, c) : s \in {x \in shorter : Len(x) = n - 1},
                                          c \in TextAlphabet}

InitText ==
    /\ PipelineIdle
    /\ PairIdle
    /\ QueryIdle
    /\ ExtractIdle
    /\ text \in StringsUpTo(MaxLen)
    /\ once = <<>>
    /\ twice = <<>>
    /\ tpc = "input"

Normalize ==
    /\ tpc = "input"
    /\ once' = clean_and_normalize_text(text)
    /\ tpc' = "once"
    /\ UNCHANGED <<text, twice>>
    /\ UNCHANGED <<pipelineVars, pairVars, extractVars, queryVars>>

NormalizeAgain ==
    /\ tpc = "once"
    /\ twice' = clean_and_normalize_text(once)
    /\ tpc' = "twice"
    /\ UNCHANGED <<text, once>>
    /\ UNCHANGED <<pipelineVars, pairVars, extractVars, queryVars>>

NextText == Normalize \/ NormalizeAgain

SpecText == InitText /\ [][NextText]_vars

---------------------------------------------------------------------------
\* C4: passage normalization is idempotent: normalizing an already
\* normalized passage yields the same string.
C4_NormalizeIdempotent ==
    tpc = "twice" => twice = once

---------------------------------------------------------------------------
(* Two concurrent requests: api.value / wsgi.proxy_valuation run run_chain  *)
(* once per request, each on its own payload dict (req.model_dump()).  The  *)
(* requests interleave at the three awaits of run_chain.  USE_DUMMY, the    *)
(* vector store and the clock are the environment they share; none of them  *)
(* is written by a request.  USE_DUMMY is set: the result of a request is   *)
(* then a function of its payload and of its search results, where the      *)
(* answers of the hosted model are not.                                     *)

Requests == {1, 2}

\* Most passages one search returns in the specification of two requests.
MaxPairResults == 2

\* What search_with_rag returns for the passages rs at the instant t (lines
\* 244-371).
RetrieverResult(rs, t) ==
    RemoveOutliers(RecencyFilter(BuildResults(rs, Len(rs), t), t))

\* Mutant: comps_json is kept in one place for all requests, where the
\* first request's list stays.
CallInput_Shared(r) == [item |-> calls[r].payload, comps |-> calls[1].comps]

\* input_data of request r (orchestrator.py:36-39).
CallInput(r) == [item |-> calls[r].payload, comps |-> calls[r].comps]

\* What valuator.acall may return for the input data.
Valuations(dummy, data) ==
    IF dummy THEN {DummyValuation(data)}
    ELSE ModelValuations(data)
             \cup {ValuatorNoText, ValuatorBadJson, ValuatorFailure}

\* What formatter.acall may return for the valuation.
Formats(dummy, valuation) ==
    IF dummy THEN {DummyFormat(valuation)}
    ELSE ModelFormats(valuation) \cup {FormatterNoText, FormatterFailure}

InitPair ==
    /\ TextIdle
    /\ QueryIdle
    /\ ExtractIdle
    /\ useDummy = TRUE
    /\ now \in Nows
    /\ store = MixedStore
    /\ pc = "pair"
    /\ payload = <<>>
    /\ results = <<>>
    /\ serializable_results = <<>>
    /\ skipped = {}
    /\ recent_results = <<>>
    /\ filtered_results = <<>>
    /\ removed_count = 0
    /\ caught = FALSE
    /\ comps = <<>>
    /\ valuation_raw = <<>>
    /\ response = <<>>
    /\ calls \in [Requests ->
                    {[pc |-> "retrieve", request |-> p, payload |-> p,
                      results |-> <<>>, comps |-> <<>>,
                      valuation_raw |-> NotSet, response |-> NotSet] :
                        p \in Payloads}]

\* Request r: await retriever_acall, and lines 13-33.
PairRetrieve(r) ==
    /\ calls[r].pc = "retrieve"
    /\ \E rs \in ResultLists(store, MaxPairResults) :
           calls' = [calls EXCEPT
                        ![r].results = rs,
                        ![r].comps = RetrieverResult(rs, now),
                        ![r].payload = WithHours(calls[r].payload,
                                                 RetrieverResult(rs, now)),
                        ![r].pc = "valuate"]
    /\ UNCHANGED <<pipelineVars, textVars, extractVars, queryVars>>

\* Request r: await valuator_acall(input_data).
PairValuate(r) ==
    /\ calls[r].pc = "valuate"
    /\ \E v \in Valuations(useDummy, CallInput(r)) :
           calls' = [calls EXCEPT ![r].valuation_raw = v, ![r].pc = "format"]
    /\ UNCHANGED <<pipelineVars, textVars, extractVars, queryVars>>

\* Request r: await formatter_acall(valuation_raw), and the return.
PairFormat(r) ==
    /\ calls[r].pc = "format"
    /\ \E f \in Formats(useDummy, calls[r].valuation_raw) :
           calls' = [calls EXCEPT ![r].response = f, ![r].pc = "done"]
    /\ UNCHANGED <<pipelineVars, textVars, extractVars, queryVars>>

NextPair ==
    \E r \in Requests : PairRetrieve(r) \/ PairValuate(r) \/ PairFormat(r)

SpecPair == InitPair /\ [][NextPair]_vars

\* The documents run_chain can return when it runs alone on payload p with
\* the search results rs at the instant t.
AloneResponses(dummy, p, rs, t) ==
    LET cs   == RetrieverResult(rs, t)
        data == [item |-> WithHours(p, cs), comps |-> cs]
    IN  UNION {Formats(dummy, v) : v \in Valuations(dummy, data)}

UndatedTexts ==
    {Truncate(clean_and_normalize_text(content)) :
         content \in {c \in Passages :
                          extract_date(clean_and_normalize_text(c)) = NoDate}}

\* The records built from such a passage.
WithoutDate(items) == SelectSeq(items, LAMBDA item : item.text \in UndatedTexts)

\* C24: a record built from a passage without a date has the sale date 30
\* days before now, and the recency filter of the same call puts it in
\* within90, not in within180, and keeps it in its result.
C24_DefaultDateIsRecent ==
    pc = "outliers" =>
        LET undated == WithoutDate(serializable_results)
        IN  /\ \A j \in 1..Len(undated) :
                   /\ ParsesAsDate(undated[j].sale_date)
                   /\ Ordinal(undated[j].sale_date)
                          = Ordinal(Date(now.y, now.m, now.d)) - 30
            /\ WithoutDate(Recent90(serializable_results, now)) = undated
            /\ WithoutDate(Recent180(serializable_results, now)) = <<>>
            /\ WithoutDate(recent_results) = undated

\* Records without a date were kept as recent while a record with an older
\* date was left out.
C24_Witness ==
    /\ pc = "outliers"
    /\ Len(WithoutDate(recent_results)) >= 3
    /\ Len(recent_results) < Len(serializable_results)

\* C27: search_with_rag never raises: once its except clause has run, the
\* call has returned the empty list, acall has handed that list to run_chain,
\* and run_chain goes on to the valuator and the formatter with it.
C27_ExceptionGivesEmptyList ==
    caught =>
        /\ pc \in {"valuate", "format", "done"}
        /\ comps = <<>>
        /\ pc \in {"format", "done"} => valuation_raw # NotSet
        /\ pc = "done" => response # NotSet

\* An exception was caught and run_chain returned a document.
C27_Witness ==
    /\ caught
    /\ pc = "done"
    /\ comps = <<>>
    /\ response # NotSet

\* C28: the search returning at most k passages, no stage of the retriever
\* makes the list longer: the records built are no more than the passages,
\* the recent ones no more than the records built, and the list handed to
\* the valuator has at most k records, so fewer than 25.
C28_AtMostKComps ==
    /\ Len(results) <= MaxResults
    /\ Len(serializable_results) <= Len(results)
    /\ pc \in {"outliers", "return"} =>
           Len(recent_results) <= Len(serializable_results)
    /\ pc \in {"valuate", "format", "done"} =>
           Len(comps) <= MaxResults /\ Len(comps) < 25

\* The valuator is handed as many records as the search may return.
C28_Witness ==
    /\ pc = "valuate"
    /\ Len(comps) = MaxResults

---------------------------------------------------------------------------
(* extract_equipment_brand_and_model, rag_retriever.py:99-184: the brand *)

\* The roster of brands, in the order of the list.
brands ==
    << <<"J", "o", "h", "n", " ", "D", "e", "e", "r", "e">>,
       <<"J", "O", "H", "N", " ", "D", "E", "E", "R", "E">>,
       <<"C", "a", "s", "e", " ", "I", "H">>,
       <<"C", "A", "S", "E", " ", "I", "H">>,
       <<"C", "A", "S", "E">>,
       <<"C", "a", "s", "e">>,
       <<"N", "e", "w", " ", "H", "o", "l", "l", "a", "n", "d">>,
       <<"N", "E", "W", " ", "H", "O", "L", "L", "A", "N", "D">>,
       <<"K", "u", "b", "o", "t", "a">>,
       <<"K", "U", "B", "O", "T", "A">>,
       <<"M", "a", "s", "s", "e", "y", " ", "F", "e", "r", "g", "u", "s", "o", "n">>,
       <<"M", "A", "S", "S", "E", "Y", " ", "F", "E", "R", "G", "U", "S", "O", "N">>,
       <<"A", "G", "C", "O">>,
       <<"F", "e", "n", "d", "t">>,
       <<"F", "E", "N", "D", "T">>,
       <<"C", "l", "a", "a", "s">>,
       <<"C", "L", "A", "A", "S">>,
       <<"D", "E", "U", "T", "Z", "-", "F", "A", "H", "R">>,
       <<"D", "e", "u", "t", "z", "-", "F", "a", "h", "r">>,
       <<"C", "a", "t", "e", "r", "p", "i", "l", "l", "a", "r">>,
       <<"C", "A", "T">> >>

Lit_Unknown == <<"U", "n", "k", "n", "o", "w", "n">>

\* str.upper()
Upper(s) ==
    [j \in 1..Len(s) |->
        IF \E k \in 1..26 : LowerCase[k] = s[j]
        THEN UpperCase[CHOOSE k \in 1..26 : LowerCase[k] = s[j]]
        ELSE s[j]]

\* sub in s
Contains(s, sub) == \E i \in 1..(Len(s) + 1) : LiteralAt(s, i, sub)

\* No hint: None, or the empty string, which `if make_hint:` takes alike.
NoHint == <<>>

\* The entries of the roster the hint matches: one is part of the other,
\* both in upper case.
HintMatches(make_hint) ==
    {k \in 1..Len(brands) : \/ Contains(Upper(make_hint), Upper(brands[k]))
                            \/ Contains(Upper(brands[k]), Upper(make_hint))}

\* The entries of the roster that occur in the text as they are written.
TextMatches(s) == {k \in 1..Len(brands) : Contains(s, brands[k])}

\* The first entry of the roster among ks.
FirstBrand(ks) == brands[CHOOSE k \in ks : \A h \in ks : k <= h]

\* Mutant: the text is searched before the hint is tried.
DetectBrand_TextFirst(s, make_hint) ==
    IF TextMatches(s) # {} THEN FirstBrand(TextMatches(s))
    ELSE IF make_hint # NoHint /\ HintMatches(make_hint) # {}
         THEN FirstBrand(HintMatches(make_hint))
         ELSE Lit_Unknown

\* detected_brand before it is normalized (lines 117-131).
DetectBrand(s, make_hint) ==
    IF make_hint # NoHint /\ HintMatches(make_hint) # {}
    THEN FirstBrand(HintMatches(make_hint))
    ELSE IF TextMatches(s) # {} THEN FirstBrand(TextMatches(s))
         ELSE Lit_Unknown

\* Lines 133-143: the tests of the if/elif chain, in its order: the text
\* looked for in the upper-cased brand, and the name assigned.
Normalizations ==
    << [key  |-> <<"J", "O", "H", "N", " ", "D", "E", "E", "R", "E">>,
        name |-> <<"J", "o", "h", "n", " ", "D", "e", "e", "r", "e">>],
       [key  |-> <<"C", "A", "S", "E">>,
        name |-> <<"C", "a", "s", "e">>],
       [key  |-> <<"N", "E", "W", " ", "H", "O", "L", "L", "A", "N", "D">>,
        name |-> <<"N", "e", "w", " ", "H", "o", "l", "l", "a", "n", "d">>],
       [key  |-> <<"K", "U", "B", "O", "T", "A">>,
        name |-> <<"K", "u", "b", "o", "t", "a">>],
       [key  |-> <<"M", "A", "S", "S", "E", "Y">>,
        name |-> <<"M", "a", "s", "s", "e", "y", " ", "F", "e", "r", "g", "u", "s", "o", "n">>] >>

\* The first test of the chain that holds decides; the brand is left as it
\* is when none does.
NormalizeBrand(detected_brand) ==
    LET upper == Upper(detected_brand)
        holds == {j \in 1..Len(Normalizations) :
                     Contains(upper, Normalizations[j].key)}
    IN  IF holds = {} THEN detected_brand
        ELSE Normalizations[CHOOSE j \in holds : \A h \in holds : j <= h].name

\* The brand extract_equipment_brand_and_model returns.  The model number it
\* returns with it (lines 145-184) depends on the brand and the text only
\* and is not read again.
extract_equipment_brand(s, make_hint) ==
    NormalizeBrand(DetectBrand(s, make_hint))

---------------------------------------------------------------------------
(* extract_auction_company, rag_retriever.py:186-207 *)

Lit_AUCTION == <<"A", "U", "C", "T", "I", "O", "N">>

Lit_AUCTIONEERS == <<"A", "U", "C", "T", "I", "O", "N", "E", "E", "R", "S">>

UpperLetters == {UpperCase[k] : k \in 1..26}

LowerLetters == {LowerCase[k] : k \in 1..26}

\* [A-Z\s&]
NameClass == UpperLetters \cup Whitespace \cup {"&"}

\* [A-Za-z\s&]
CompanyClass == UpperLetters \cup LowerLetters \cup Whitespace \cup {"&"}

NoMatch == [ok |-> FALSE, g1 |-> <<>>, g2 |-> <<>>]

\* r'([A-Z][A-Z\s&]+LIT)' at index i, LIT being AUCTION or AUCTIONEERS: a
\* capital, then the longest run of [A-Z\s&] that still leaves the literal
\* after at least one character of the run.  The literal is itself made of
\* characters of the class, so the greedy match ends at its last occurrence
\* within the run.
NamedAt(s, i, lit) ==
    LET run  == RunLen(s, i + 1, NameClass)
        ends == {p \in (i + 2)..(i + run - Len(lit) + 1) : LiteralAt(s, p, lit)}
    IN  IF i <= Len(s) /\ s[i] \in UpperLetters /\ ends # {}
        THEN LET p == CHOOSE q \in ends : \A h \in ends : q >= h
             IN  [ok |-> TRUE, g1 |-> SubSeq(s, i, p + Len(lit) - 1), g2 |-> <<>>]
        ELSE NoMatch

\* r'AUCTION[S]?:\s*([A-Za-z\s&]+)' at index i.  When no character of the
\* class follows the whitespace after the colon, \s* gives its last
\* character back to the group.
LabelledAt(s, i) ==
    LET c  == IF CharAt(s, i + 7, "S") THEN i + 8 ELSE i + 7
        ws == RunLen(s, c + 1, Whitespace)
        g  == RunLen(s, c + 1, CompanyClass)
    IN  IF LiteralAt(s, i, Lit_AUCTION) /\ CharAt(s, c, ":") /\ g >= 1
        THEN [ok |-> TRUE,
              g1 |-> IF g > ws THEN SubSeq(s, c + 1 + ws, c + g)
                     ELSE <<s[c + g]>>,
              g2 |-> <<>>]
        ELSE NoMatch

\* r'(?:in|at)\s+([A-Z][a-z]+(?:\s+[A-Z][a-z]+)?),\s+([A-Z]{2})' at index i.
LocationAt(s, i) ==
    LET w1 == RunLen(s, i + 2, Whitespace)
        a  == i + 2 + w1
        n1 == RunLen(s, a + 1, LowerLetters)
        e1 == a + 1 + n1
        w2 == RunLen(s, e1, Whitespace)
        b  == e1 + w2
        n2 == RunLen(s, b + 1, LowerLetters)
        e2 == b + 1 + n2
        two == /\ w2 >= 1 /\ b <= Len(s) /\ s[b] \in UpperLetters /\ n2 >= 1
               /\ CharAt(s, e2, ",")
        e  == IF two THEN e2 ELSE e1
        w3 == RunLen(s, e + 1, Whitespace)
        st == e + 1 + w3
    IN  IF /\ (LiteralAt(s, i, <<"i", "n">>) \/ LiteralAt(s, i, <<"a", "t">>))
           /\ w1 >= 1
           /\ a <= Len(s) /\ s[a] \in UpperLetters /\ n1 >= 1
           /\ CharAt(s, e, ",")
           /\ w3 >= 1
           /\ st + 1 <= Len(s) /\ s[st] \in UpperLetters
           /\ s[st + 1] \in UpperLetters
        THEN [ok |-> TRUE, g1 |-> SubSeq(s, a, e - 1), g2 |-> SubSeq(s, st, st + 1)]
        ELSE NoMatch

\* The match of the k-th entry of patterns at index i; the location pattern
\* is numbered 4.
AuctionMatchAt(s, i, k) ==
    CASE k = 1 -> NamedAt(s, i, Lit_AUCTION)
      [] k = 2 -> NamedAt(s, i, Lit_AUCTIONEERS)
      [] k = 3 -> LabelledAt(s, i)
      [] k = 4 -> LocationAt(s, i)

\* re.search(pattern, text): is there a match, and the leftmost one.
AuctionSearchHits(s, k) == {i \in 1..Len(s) : AuctionMatchAt(s, i, k).ok}

AuctionSearch(s, k) ==
    LET hits == AuctionSearchHits(s, k)
    IN  AuctionMatchAt(s, CHOOSE i \in hits : \A h \in hits : i <= h, k)

\* Mutant: the '<NAME> AUCTIONEERS' pattern is tried first.
AuctionPatternUsed_AuctioneersFirst(s) ==
    LET matching == {k \in 1..4 : AuctionSearchHits(s, k) # {}}
    IN  IF matching = {} THEN 0
        ELSE IF 2 \in matching THEN 2
        ELSE CHOOSE k \in matching : \A h \in matching : k <= h

\* The pattern whose match extract_auction_company returns: the first, in
\* the order of the list and then the location pattern, that matches
\* anywhere in the text; 0 if none does.
AuctionPatternUsed(s) ==
    LET matching == {k \in 1..4 : AuctionSearchHits(s, k) # {}}
    IN  IF matching = {} THEN 0
        ELSE CHOOSE k \in matching : \A h \in matching : k <= h

\* extract_auction_company
extract_auction_company(s) ==
    LET k == AuctionPatternUsed(s)
    IN  IF k = 0
        THEN <<"U", "n", "k", "n", "o", "w", "n", " ", "A", "u", "c", "t", "i", "o", "n">>
        ELSE IF k = 4
             THEN AuctionSearch(s, 4).g1 \o <<",", " ">> \o AuctionSearch(s, 4).g2
             ELSE Strip(AuctionSearch(s, k).g1)

---------------------------------------------------------------------------
(* The structured query: run_chain builds it (orchestrator.py:8-9), and    *)
(* rag_retriever.acall reads the make, the model and the year back out of  *)
(* it (rag_retriever.py:385-399).                                          *)

Lit_make == <<"m", "a", "k", "e", ":">>

Lit_model == <<"m", "o", "d", "e", "l", ":">>

Lit_year == <<"y", "e", "a", "r", ":">>

\* query_blob = f"{make} {model} {year} {description}"
QueryBlob(p) ==
    p.make \o <<" ">> \o p.model \o <<" ">> \o p.year \o <<" ">> \o p.description

\* structured_query = f'{query_blob} make: "{make}" model: "{model}" year: "{year}"'
StructuredQuery(p) ==
    QueryBlob(p)
        \o <<" ">> \o Lit_make \o <<" ", "\"">> \o p.make \o <<"\"">>
        \o <<" ">> \o Lit_model \o <<" ", "\"">> \o p.model \o <<"\"">>
        \o <<" ">> \o Lit_year \o <<" ", "\"">> \o p.year \o <<"\"">>

\* ["\'"]
Quotes == {"\"", "'"}

\* The characters [^"\'",] does not match.
ValueStops == Quotes \cup {","}

\* Length of the longest prefix of s[i..] made of characters not in class.
RECURSIVE RunLenNot(_, _, _)
RunLenNot(s, i, class) ==
    IF i <= Len(s) /\ s[i] \notin class THEN 1 + RunLenNot(s, i + 1, class) ELSE 0

\* r'KEY\s*["\'"]?([^"\'",]+)["\'"]?' at index i, KEY being 'make:' or
\* 'model:'.  The whitespace and the opening quote are skipped when a value
\* character follows them; when none does, \s* gives its last character
\* back and that character is the value.
ValueAt(s, i, key) ==
    LET c  == i + Len(key)
        ws == RunLen(s, c, Whitespace)
        q  == c + ws
        v  == IF q <= Len(s) /\ s[q] \in Quotes THEN q + 1 ELSE q
        n  == RunLenNot(s, v, ValueStops)
    IN  IF ~LiteralAt(s, i, key) THEN [ok |-> FALSE, g1 |-> <<>>]
        ELSE IF n >= 1 THEN [ok |-> TRUE, g1 |-> SubSeq(s, v, v + n - 1)]
        ELSE IF ws >= 1 THEN [ok |-> TRUE, g1 |-> <<s[q - 1]>>]
        ELSE [ok |-> FALSE, g1 |-> <<>>]

\* r'year:\s*["\'"]?(\d{4})["\'"]?' at index i.
YearAt(s, i) ==
    LET c  == i + Len(Lit_year)
        q  == c + RunLen(s, c, Whitespace)
        v  == IF q <= Len(s) /\ s[q] \in Quotes THEN q + 1 ELSE q
    IN  IF LiteralAt(s, i, Lit_year) /\ DigitsAt(s, v, 4)
        THEN [ok |-> TRUE, g1 |-> SubSeq(s, v, v + 3)]
        ELSE [ok |-> FALSE, g1 |-> <<>>]

\* No value: None.  A value read by one of the patterns is never empty.
NoValue == <<>>

\* make_match.group(1) if make_match else None, re.search giving the
\* leftmost match; the same for the model.
ParseValue(s, key) ==
    LET hits == {i \in 1..Len(s) : ValueAt(s, i, key).ok}
    IN  IF hits = {} THEN NoValue
        ELSE ValueAt(s, CHOOSE i \in hits : \A h \in hits : i <= h, key).g1

\* year_match.group(1) if year_match else None, before int().
ParseYear(s) ==
    LET hits == {i \in 1..Len(s) : YearAt(s, i).ok}
    IN  IF hits = {} THEN NoValue
        ELSE YearAt(s, CHOOSE i \in hits : \A h \in hits : i <= h).g1

---------------------------------------------------------------------------
(* Specification of the outlier block alone: lines 346-368 applied to any   *)
(* list of at least 5 records, whatever the stages before it let through.  *)

\* Longest list of records handed to the outlier block.
MaxPrices == 6

\* The prices of the records: the two ends of the accepted range and two
\* prices between them, near one end each.
PriceValues == {MinPrice, 2 * MinPrice, MaxPrice \div 2, MaxPrice}

RecordOfPrice(v) ==
    [sale_id   |-> SaleId,
     price     |-> RatInt(v),
     sale_date |-> NoDate,
     text      |-> <<>>]

\* The lists of n records.
RecordLists(n) == [1..n -> {RecordOfPrice(v) : v \in PriceValues}]

InitOutliers ==
    /\ TextIdle
    /\ PairIdle
    /\ QueryIdle
    /\ ExtractIdle
    /\ useDummy = TRUE
    /\ payload = <<>>
    /\ now = <<>>
    /\ store = {}
    /\ pc = "outliers"
    /\ results = <<>>
    /\ serializable_results = <<>>
    /\ skipped = {}
    /\ recent_results \in UNION {RecordLists(n) : n \in OutlierMinSample..MaxPrices}
    /\ filtered_results = <<>>
    /\ removed_count = 0
    /\ caught = FALSE
    /\ comps = <<>>
    /\ valuation_raw = <<>>
    /\ response = <<>>

NextOutliers == FilterOutliers

SpecOutliers == InitOutliers /\ [][NextOutliers]_vars

\* C25: of a list of 5 or more prices at least 3 lie within the bounds
\* [Q1 - 1.5 IQR, Q3 + 1.5 IQR], so the outlier block never reverts to the
\* unfiltered list: when it found outliers, its result is the filtered list.
C25_ThreeWithinBounds ==
    pc = "return" =>
        /\ Len(filtered_results) >= 3
        /\ removed_count > 0 => recent_results = filtered_results

\* Outliers were removed from a list and exactly 3 records were left.
C25_Witness ==
    /\ pc = "return"
    /\ removed_count > 0
    /\ Len(filtered_results) = 3
    /\ recent_results = filtered_results

---------------------------------------------------------------------------
(* Specification of the extractors: extract_prices and extract_date applied *)
(* to a text, as the loop of search_with_rag applies them (lines 265, 269). *)
(* The text is made of at most MaxTokens pieces of the kinds the            *)
(* extractors look for.                                                     *)

\* Most pieces of one text.
MaxTokens == 3

ExtractTokens ==
    { <<"$", "7", ",", "0", "0", "0">>,
      <<"$", "5", "0", "0">>,
      <<"8", ",", "0", "0", "0", " ", "d", "o", "l", "l", "a", "r", "s">>,
      <<" ", "U", "S", "D">>,
      <<" ">>,
      <<"1", "3", "/", "4", "5", "/", "2", "0", "2", "6">>,
      <<"2", "5", "/", "1", "2", "/", "2", "0", "2", "6">>,
      <<"5", "-", "5", "-", "2", "0", "2", "6">>,
      <<"2", "0", "2", "6", "/", "1", "/", "5">>,
      <<"M", "a", "y", " ", "5", ",", " ", "2", "0", "2", "6">> }

\* The texts of at most n pieces of tokens.
RECURSIVE TextsFrom(_, _)
TextsFrom(tokens, n) ==
    IF n = 0 THEN {<<>>}
    ELSE TextsFrom(tokens, n - 1)
             \cup {s \o tok : s \in TextsFrom(tokens, n - 1), tok \in tokens}

InitExtract ==
    /\ PipelineIdle
    /\ TextIdle
    /\ PairIdle
    /\ QueryIdle
    /\ xtext \in TextsFrom(ExtractTokens, MaxTokens)
    /\ xprices = <<>>
    /\ xdate = NoDate
    /\ xhint = <<>>
    /\ xbrand = <<>>
    /\ xauction = <<>>
    /\ xpc = "input"

\* all_prices = extract_prices(clean_content)
ExtractPrices ==
    /\ xpc = "input"
    /\ xprices' = extract_prices(xtext)
    /\ xpc' = "prices"
    /\ UNCHANGED <<xtext, xdate, xhint, xbrand, xauction>>
    /\ UNCHANGED <<pipelineVars, textVars, pairVars, queryVars>>

\* extracted_date = extract_date(clean_content)
ExtractDate ==
    /\ xpc = "prices"
    /\ xdate' = extract_date(xtext)
    /\ xpc' = "done"
    /\ UNCHANGED <<xtext, xprices, xhint, xbrand, xauction>>
    /\ UNCHANGED <<pipelineVars, textVars, pairVars, queryVars>>

NextExtract == ExtractPrices \/ ExtractDate

SpecExtract == InitExtract /\ [][NextExtract]_vars

\* The places where the text states a price in the k-th form, left to
\* right: where the statement starts, and the number stated.
RECURSIVE PriceStatements(_, _, _)
PriceStatements(s, i, k) ==
    IF i > Len(s) THEN <<>>
    ELSE IF PriceMatch(s, i, k).ok
         THEN <<[at |-> i, digits |-> RemoveChar(PriceMatch(s, i, k).g1, ",")]>>
                  \o PriceStatements(s, PriceMatch(s, i, k).end, k)
         ELSE PriceStatements(s, i + 1, k)

\* Those of them that state a number from 1000 to 1000000.
StatementsInRange(s, k) ==
    SelectSeq(PriceStatements(s, 1, k),
              LAMBDA st : /\ st.digits # <<>>
                          /\ Len(StripLeadingZeros(st.digits)) <= 7
                          /\ DecimalValue(st.digits) >= 1000
                          /\ DecimalValue(st.digits) <= 1000000)

ValuesOf(statements) ==
    [j \in 1..Len(statements) |-> DecimalValue(statements[j].digits)]

\* The prices stated in range, in the order in which they appear in the text.
InOrderOfAppearance(s) ==
    ValuesOf(SortSeq(StatementsInRange(s, 1) \o StatementsInRange(s, 2)
                         \o StatementsInRange(s, 3),
                     LAMBDA a, b : a.at < b.at))

\* The prices stated in range, form by form: $-prefixed, then followed by
\* 'dollars', then followed by 'USD'; in the order of appearance within one
\* form.
FormByForm(s) ==
    ValuesOf(StatementsInRange(s, 1)) \o ValuesOf(StatementsInRange(s, 2))
        \o ValuesOf(StatementsInRange(s, 3))

\* C19 as stated: extract_prices returns only values in [1000, 1000000], of
\* all three forms, in their order of appearance in the text, repeated
\* values kept.
C19_PricesInOrderOfAppearance ==
    xpc \in {"prices", "done"} =>
        /\ \A j \in 1..Len(xprices) : xprices[j] >= 1000 /\ xprices[j] <= 1000000
        /\ xprices = InOrderOfAppearance(xtext)

\* C19, amended: extract_prices returns only values in [1000, 1000000], of
\* all three forms, listed form by form ($-prefixed first, then 'dollars',
\* then 'USD') and in order of appearance within a form, repeated values
\* kept.
C19_PricesFormByForm ==
    xpc \in {"prices", "done"} =>
        /\ \A j \in 1..Len(xprices) : xprices[j] >= 1000 /\ xprices[j] <= 1000000
        /\ xprices = FormByForm(xtext)

\* A text states 8000 dollars before $7000, and the list has 7000 first.
C19_Witness ==
    /\ xpc = "prices"
    /\ xprices = <<7000, 8000>>
    /\ InOrderOfAppearance(xtext) = <<8000, 7000>>

\* C20: when extract_date returns a value, it is the result of the first
\* pattern that matches the text and it is a calendar date (month 1..12, day
\* valid for the month); when no pattern matches it returns no date.
C20_DateIsCalendarDate ==
    xpc = "done" =>
        LET k == DatePatternUsed(xtext)
        IN  IF k = 0 THEN xdate = NoDate
            ELSE /\ xdate = DateFormat(DateSearch(xtext, k), k)
                 /\ ParsesAsDate(xdate)

\* The places where the text holds a slash-separated d/d/yyyy date.
SlashDates(s) == {i \in 1..Len(s) : ShortDateAt(s, i, "/").ok}

\* The leftmost of them.
FirstSlashDate(s) ==
    ShortDateAt(s, CHOOSE i \in SlashDates(s) : \A h \in SlashDates(s) : i <= h,
                "/")

\* C21: the day-first reading never produces the result of extract_date: a
\* text that holds a slash-separated d/d/yyyy date gets the leftmost such
\* date read month first (first number the month, second the day), whatever
\* other dates it holds.
C21_SlashDateMonthFirst ==
    (xpc = "done" /\ SlashDates(xtext) # {}) =>
        /\ xdate.m = FirstSlashDate(xtext).g1
        /\ xdate.d = FirstSlashDate(xtext).g2
        /\ xdate.y = FirstSlashDate(xtext).g3

\* A text holds 25/12/2026, which only the day-first reading makes a
\* calendar date, and the result has month 25 and day 12.
C21_Witness ==
    /\ xpc = "done"
    /\ SlashDates(xtext) # {}
    /\ FirstSlashDate(xtext).g1 = 25
    /\ FirstSlashDate(xtext).g2 = 12
    /\ xdate = Date(2026, 25, 12)

\* The places where the text mentions a price in range: where the number of
\* a statement of any of the three forms starts.
PriceMentions(s) ==
    {st.at + 1 + RunLen(s, st.at + 1, Whitespace) :
         st \in {StatementsInRange(s, 1)[j] :
                     j \in 1..Len(StatementsInRange(s, 1))}}
        \cup {st.at : st \in {StatementsInRange(s, 2)[j] :
                                 j \in 1..Len(StatementsInRange(s, 2))}}
        \cup {st.at : st \in {StatementsInRange(s, 3)[j] :
                                 j \in 1..Len(StatementsInRange(s, 3))}}

\* C29: each price mentioned in range contributes exactly one entry to the
\* list of extract_prices, even when the mention has more than one of the
\* three forms, as '$7,000 USD' has.
C29_OneEntryPerMention ==
    xpc \in {"prices", "done"} =>
        Len(xprices) = Cardinality(PriceMentions(xtext))

---------------------------------------------------------------------------
(* Specification of the name extractors: extract_equipment_brand_and_model *)
(* and extract_auction_company applied to a text, as the loop of           *)
(* search_with_rag applies them (lines 275-279).  The text is made of      *)
(* pieces of brand names, or of pieces of auction company names.           *)

\* Most pieces of a text of brand names.
MaxBrandTokens == 2

\* Most pieces of a text of auction company names.
MaxAuctionTokens == 3

BrandTokens ==
    { <<"J", "o", "h", "n", " ", "D", "e", "e", "r", "e">>,
      <<"J", "O", "H", "N", " ", "D", "E", "E", "R", "E">>,
      <<"F", "e", "n", "d", "t">>,
      <<"F", "E", "N", "D", "T">>,
      <<"C", "a", "t", "e", "r", "p", "i", "l", "l", "a", "r">>,
      <<"C", "A", "T">>,
      <<" ">> }

\* The hints: a brand in lower case, a short name, a part of a name, a make
\* that is not on the roster, one letter.
Hints ==
    { <<"f", "e", "n", "d", "t">>,
      <<"C", "A", "T">>,
      <<"D", "e", "e", "r", "e">>,
      <<"V", "o", "l", "v", "o">>,
      <<"e">> }

AuctionTokens ==
    { <<"S", "M", "I", "T", "H", " ">>,
      <<"A", "U", "C", "T", "I", "O", "N">>,
      <<"E", "E", "R", "S">>,
      <<"S", ":", " ">>,
      <<":", " ">>,
      <<"b", "o", "b">>,
      <<"i", "n", " ", "A", "m", "e", "s", ",", " ", "I", "A">> }

InitNames ==
    /\ PipelineIdle
    /\ TextIdle
    /\ PairIdle
    /\ QueryIdle
    /\ \/ /\ xtext \in TextsFrom(BrandTokens, MaxBrandTokens)
          /\ xhint \in Hints \cup {NoHint}
       \/ /\ xtext \in TextsFrom(AuctionTokens, MaxAuctionTokens)
          /\ xhint = NoHint
    /\ xprices = <<>>
    /\ xdate = NoDate
    /\ xbrand = <<>>
    /\ xauction = <<>>
    /\ xpc = "names"

\* brand, model_name = extract_equipment_brand_and_model(clean_content, make)
ExtractBrand ==
    /\ xpc = "names"
    /\ xbrand' = extract_equipment_brand(xtext, xhint)
    /\ xpc' = "branded"
    /\ UNCHANGED <<xtext, xhint, xprices, xdate, xauction>>
    /\ UNCHANGED <<pipelineVars, textVars, pairVars, queryVars>>

\* auction = extract_auction_company(clean_content)
ExtractAuction ==
    /\ xpc = "branded"
    /\ xauction' = extract_auction_company(xtext)
    /\ xpc' = "named"
    /\ UNCHANGED <<xtext, xhint, xprices, xdate, xbrand>>
    /\ UNCHANGED <<pipelineVars, textVars, pairVars, queryVars>>

NextNames == ExtractBrand \/ ExtractAuction

SpecNames == InitNames /\ [][NextNames]_vars

\* C22: when the hint matches an entry of the roster, the brand returned is
\* the one the hint gives with the empty text, whatever brand the text names;
\* when there is no hint or it matches no entry, the brand is the first
\* entry of the roster found in the text, normalized, and 'Unknown' when the
\* text names none.
C22_HintDecidesBrand ==
    xpc \in {"branded", "named"} =>
        IF xhint # NoHint /\ HintMatches(xhint) # {}
        THEN xbrand = extract_equipment_brand(<<>>, xhint)
        ELSE IF TextMatches(xtext) # {}
             THEN xbrand = NormalizeBrand(FirstBrand(TextMatches(xtext)))
             ELSE xbrand = Lit_Unknown

\* The hint 'fendt' decided the brand of a text that names John Deere.
C22_Witness ==
    /\ xpc = "branded"
    /\ xhint = <<"f", "e", "n", "d", "t">>
    /\ Contains(xtext, brands[1])
    /\ xbrand = <<"F", "e", "n", "d", "t">>

\* The manufacturer of each entry of the roster, numbered in the order of
\* the list.
Manufacturer ==
    <<1, 1, 2, 2, 2, 2, 3, 3, 4, 4, 5, 5, 6, 7, 7, 8, 8, 9, 9, 10, 10>>

\* The entries of the roster that are variants of the brand detected.
VariantsDetected(s, make_hint) ==
    {j \in 1..Len(brands) :
        \E k \in 1..Len(brands) :
            /\ DetectBrand(s, make_hint) = brands[k]
            /\ Manufacturer[j] = Manufacturer[k]}

\* C23: brand names are canonical: the brand returned, detected by the hint
\* or in the text, is the one that every variant of the same manufacturer
\* on the roster yields when it is the text.
C23_BrandCanonical ==
    xpc \in {"branded", "named"} =>
        \A j \in VariantsDetected(xtext, xhint) :
            xbrand = extract_equipment_brand(brands[j], NoHint)

\* Does s end with lit?
EndsWith(s, lit) == Len(s) >= Len(lit) /\ LiteralAt(s, Len(s) - Len(lit) + 1, lit)

\* The places where the text matches '<NAME> LIT'.
NamedHits(s, lit) == {i \in 1..Len(s) : NamedAt(s, i, lit).ok}

\* C26: the '<NAME> AUCTIONEERS' pattern never determines the result: a
\* text that matches it matches '<NAME> AUCTION', and the name returned is
\* the leftmost match of that pattern, which ends in AUCTION.
C26_AuctioneersNeverUsed ==
    (xpc = "named" /\ NamedHits(xtext, Lit_AUCTIONEERS) # {}) =>
        LET hits == NamedHits(xtext, Lit_AUCTION)
        IN  /\ hits # {}
            /\ xauction = Strip(NamedAt(xtext,
                                        CHOOSE i \in hits : \A h \in hits : i <= h,
                                        Lit_AUCTION).g1)
            /\ EndsWith(xauction, Lit_AUCTION)
            /\ ~EndsWith(xauction, Lit_AUCTIONEERS)

\* The text names 'SMITH AUCTIONEERS' and the name returned is 'SMITH
\* AUCTION'.
C26_Witness ==
    /\ xpc = "named"
    /\ xtext = <<"S", "M", "I", "T", "H", " ", "A", "U", "C", "T", "I", "O", "N", "E", "E", "R", "S">>
    /\ xauction = <<"S", "M", "I", "T", "H", " ", "A", "U", "C", "T", "I", "O", "N">>

---------------------------------------------------------------------------
(* Specification of the structured query: run_chain builds it from the     *)
(* payload and acall reads the hints out of it.                            *)

\* Most pieces of one description.
MaxQueryTokens == 2

\* The makes: a plain one, and one with a comma.
MakeTexts ==
    { <<"F", "e", "n", "d", "t">>,
      <<"A", "G", ",", "C", "O">> }

\* The models: a plain one, and one that holds the word the pattern looks
\* for.
ModelTexts ==
    { <<"7", "2", "4">>,
      <<"m", "a", "k", "e", ":", "9">> }

DescriptionTokens ==
    { <<"c", "l", "e", "a", "n">>,
      <<" ">>,
      <<"m", "a", "k", "e", ":">>,
      <<"\"">>,
      <<"K", "u", "b", "o", "t", "a">>,
      <<",">> }

QueryPayloads ==
    [make : MakeTexts, model : ModelTexts, year : {<<"2", "0", "2", "4">>},
     description : TextsFrom(DescriptionTokens, MaxQueryTokens)]

InitQuery ==
    /\ PipelineIdle
    /\ TextIdle
    /\ PairIdle
    /\ ExtractIdle
    /\ qpayload \in QueryPayloads
    /\ structured_query = <<>>
    /\ qmake = NoValue
    /\ qmodel = NoValue
    /\ qyear = NoValue
    /\ qpc = "payload"

\* run_chain, lines 8-10: the query is built and handed to acall.
BuildQuery ==
    /\ qpc = "payload"
    /\ structured_query' = StructuredQuery(qpayload)
    /\ qpc' = "query"
    /\ UNCHANGED <<qpayload, qmake, qmodel, qyear>>
    /\ UNCHANGED <<pipelineVars, textVars, pairVars, extractVars>>

\* acall, lines 385-399: the hints are read and passed to search_with_rag.
ParseQuery ==
    /\ qpc = "query"
    /\ qmake' = ParseValue(structured_query, Lit_make)
    /\ qmodel' = ParseValue(structured_query, Lit_model)
    /\ qyear' = ParseYear(structured_query)
    /\ qpc' = "parsed"
    /\ UNCHANGED <<qpayload, structured_query>>
    /\ UNCHANGED <<pipelineVars, textVars, pairVars, extractVars>>

NextQuery == BuildQuery \/ ParseQuery

SpecQuery == InitQuery /\ [][NextQuery]_vars

\* C30: the brand hint round-trips through the structured query: the make
\* acall reads out of the query run_chain built is the make of the payload,
\* whatever the description, the model and the make contain.
C30_MakeRoundTrips ==
    qpc = "parsed" => qmake = qpayload.make

=============================================================================
